---- MODULE Spec2Model ----
(***************************************************************************)
(* A model of native/typst_nif/src/lib.rs: the compilation context (one    *)
(* SystemWorld plus at most one compiled PagedDocument), the virtual-file   *)
(* overlay, the fingerprinted file cache (FileSlot / SlotCell) and the      *)
(* page-range selector parser.                                              *)
(*                                                                          *)
(* Specifications:                                                          *)
(*   Spec       the session: the NIF handlers of one TypstContext           *)
(*   SpecParse  parse_page_ranges applied to bounded selector strings       *)
(*   SpecCache  the FileCache under lookups, resets and file changes        *)
(*   SpecWorld  the lookup precedence of the World provider                 *)
(*   SpecOverlay the overlay handlers over two paths                        *)
(*   SpecInputs  set_input / set_inputs and the library                     *)
(*   SpecClock   the per-compile clock snapshot and today                   *)
(*   SpecDiag    the diagnostic mapper on drawn worlds                      *)
(*   SpecIdem    repeated compiles of a deterministic compiler              *)
(*   SpecThreads the guards of a context under two threads                  *)
(*   SpecProgress the same threads, one call each again and again, fair    *)
(*   SpecHtml    export_html among paged compiles                           *)
(*   SpecPackage overlay lookups of project and package files               *)
(***************************************************************************)
EXTENDS Integers, Sequences, FiniteSets, TLC

VARIABLES
    markup,         \* SystemWorld.markup
    virtual_files,  \* SystemWorld.virtual_files : path -> bytes
    inputs,         \* SystemWorld.inputs : key -> value
    library,        \* SystemWorld.library, reduced to its inputs dictionary
    slots,          \* SystemWorld.slots : FileId -> FileSlot
    document,       \* TypstContext.document : Option<PagedDocument>
    pc,             \* the handler that holds the world guard inside typst::compile
    ret,            \* the value the last finished handler returned
    last_compile,   \* history: what the last finished compile ran against
    mutated,        \* history: set_markup, set_virtual_file or clear_virtual_file
                    \*          has run since the last finished compile
    disk,           \* the file system: <<package, path>> -> entry
    obs,            \* history: what the last World lookup did and returned
    loads,          \* history: the cache cells accessed since the last reset,
                    \*          each with its loads since then (0, 1 or "more": 2)
    sel_pages,      \* parse_page_ranges: the selector string
    sel_total,      \* parse_page_ranges: the total page count
    sel_result,     \* parse_page_ranges: the returned value
    now,            \* SystemWorld.now : the OnceLock of Now::System
    clock,          \* the system clock (Utc::now), in hours
    today_ret,      \* history: the last World::today query and its answer
    threads,        \* the handler each scheduler thread runs, and where it is
    world_guard,    \* TypstContext.world : the thread holding the mutex
    document_guard, \* TypstContext.document : the thread holding the mutex
    slots_lock,     \* SystemWorld.slots : the thread holding the mutex
    diags,          \* diagnostics_to_vec: the compiler's diagnostics
    diag_result,    \* diagnostics_to_vec: the mapped diagnostics
    result          \* context_compile: what typst::compile returned, until stored

vars == <<markup, virtual_files, inputs, library, slots, document, pc, ret,
          last_compile, mutated, disk, obs, loads, sel_pages, sel_total, sel_result,
          now, clock, today_ret, threads, world_guard, document_guard, slots_lock,
          diags, diag_result, result>>

world_vars == <<markup, virtual_files, inputs, library, slots>>
cache_vars == <<slots, obs, loads>>
parse_vars == <<sel_pages, sel_total, sel_result>>
clock_vars == <<clock, today_ret>>
thread_vars == <<threads, world_guard, document_guard, slots_lock>>
diag_vars == <<diags, diag_result>>
\* what the handlers of the session never touch
aside_vars == <<parse_vars, clock_vars, thread_vars, diag_vars, result>>

----------------------------------------------------------------------------
(* Bounds of the model *)

MaxLen == 2         \* longest virtual-file content, in bytes
MaxPages == 2       \* most pages of a compiled document
MaxSel == 5         \* longest selector string given to parse_page_ranges
MaxTotal == 2       \* largest total page count given to parse_page_ranges
MaxClock == 2       \* latest reading of the system clock, in hours

----------------------------------------------------------------------------
(* Option and Result *)

None == <<>>
Some(v) == <<v>>
Ok(v) == [ok |-> TRUE, v |-> v]
Err(e) == [ok |-> FALSE, e |-> e]

EmptyMap == [k \in {} |-> <<>>]
MapInsert(m, k, v) == [x \in (DOMAIN m) \cup {k} |-> IF x = k THEN v ELSE m[x]]
MapRemove(m, k) == [x \in (DOMAIN m) \ {k} |-> m[x]]

RECURSIVE SeqsUpTo(_, _)
SeqsUpTo(S, n) ==
    IF n = 0 THEN {<<>>}
    ELSE LET shorter == SeqsUpTo(S, n - 1)
         IN  shorter \cup {Append(s, c) : s \in {t \in shorter : Len(t) = n - 1}, c \in S}

----------------------------------------------------------------------------
(* Values the host passes in *)

Markups == {<<>>, <<"x">>}
VPaths == {"MARKUP.typ", "a.typ"}
SessionPaths == {"a.typ"}
FileChars == {"x"}
Contents == SeqsUpTo(FileChars, MaxLen)
InputKeys == {"k"}
InputValues == {"v", "w"}
InputMaps == UNION {[ks -> InputValues] : ks \in SUBSET InputKeys}

----------------------------------------------------------------------------
(* PageRangeParser: parse_page_ranges, lib.rs 608-645.                      *)
(* A &str is a sequence of one-character strings.                           *)

Digits == <<"0", "1", "2", "3", "4", "5", "6", "7", "8", "9">>
IsDigit(c) == \E i \in 1..10 : Digits[i] = c
DigitVal(c) == (CHOOSE i \in 1..10 : Digits[i] = c) - 1

\* str::trim, over the one whitespace character of the model
RECURSIVE trim_start(_)
trim_start(s) == IF s # <<>> /\ Head(s) = " " THEN trim_start(Tail(s)) ELSE s
RECURSIVE trim_end(_)
trim_end(s) ==
    IF s # <<>> /\ s[Len(s)] = " " THEN trim_end(SubSeq(s, 1, Len(s) - 1)) ELSE s
trim(s) == trim_end(trim_start(s))

\* str::contains(ch)
contains(s, ch) == \E i \in 1..Len(s) : s[i] = ch

\* position of the first ch in s, 0 when there is none
find(s, ch) == IF contains(s, ch) THEN CHOOSE i \in 1..Len(s) :
                                         s[i] = ch /\ \A j \in 1..(i - 1) : s[j] # ch
               ELSE 0

\* str::split(ch): every piece between separators, empty pieces kept
RECURSIVE split(_, _)
split(s, ch) ==
    LET i == find(s, ch)
    IN  IF i = 0 THEN <<s>>
        ELSE <<SubSeq(s, 1, i - 1)>> \o split(SubSeq(s, i + 1, Len(s)), ch)

\* str::splitn(2, ch) of a string that contains ch: <<before, after>> the first ch
splitn2(s, ch) ==
    LET i == find(s, ch) IN <<SubSeq(s, 1, i - 1), SubSeq(s, i + 1, Len(s))>>

\* the value of a non-empty digit string
RECURSIVE digits_value(_)
digits_value(s) ==
    IF s = <<>> THEN 0
    ELSE 10 * digits_value(SubSeq(s, 1, Len(s) - 1)) + DigitVal(s[Len(s)])

\* <usize as FromStr>::from_str: an optional '+', then one or more decimal digits
\* (no '-', no blanks); None stands for Err(ParseIntError). Selector strings of the
\* model are too short to overflow usize.
parse_usize(s) ==
    LET body == IF s # <<>> /\ Head(s) = "+" THEN Tail(s) ELSE s
    IN  IF body # <<>> /\ \A i \in 1..Len(body) : IsDigit(body[i])
        THEN Some(digits_value(body))
        ELSE None

\* usize::to_string, as format!("{}", page) renders it
RECURSIVE to_string(_)
to_string(n) ==
    IF n < 10 THEN <<Digits[n + 1]>>
    ELSE Append(to_string(n \div 10), Digits[(n % 10) + 1])

\* format!(text, arg)
format(text, arg) == [text |-> text, arg |-> arg]

\* parse_part with `start > end` missing from the check of line 629
parse_part_no_order(raw, total) ==
    LET part == trim(raw)
    IN  IF contains(part, "-")
        THEN LET pieces == splitn2(part, "-")
                 start == parse_usize(trim(pieces[1]))
                 end == parse_usize(trim(pieces[2]))
             IN  IF start = None \/ end = None
                 THEN Err(format("Invalid page number in range: {}", part))
                 ELSE IF start[1] < 1 \/ end[1] < 1 \/ start[1] > total
                         \/ end[1] > total
                 THEN Err(format("Page range out of bounds: {}", part))
                 ELSE Ok(<<start[1], end[1]>>)
        ELSE LET page == parse_usize(part)
             IN  IF page = None
                 THEN Err(format("Invalid page number: {}", part))
                 ELSE IF page[1] < 1 \/ page[1] > total
                 THEN Err(format("Page number out of bounds: {}", to_string(page[1])))
                 ELSE Ok(<<page[1], page[1]>>)

\* one iteration of the body of the for loop (613-643): Ok(range) or Err(message)
parse_part(raw, total) ==
    LET part == trim(raw)
    IN  IF contains(part, "-")
        THEN LET pieces == splitn2(part, "-")
                 start == parse_usize(trim(pieces[1]))
                 end == parse_usize(trim(pieces[2]))
             IN  IF start = None \/ end = None
                 THEN Err(format("Invalid page number in range: {}", part))
                 ELSE IF start[1] < 1 \/ end[1] < 1 \/ start[1] > total
                         \/ end[1] > total \/ start[1] > end[1]
                 THEN Err(format("Page range out of bounds: {}", part))
                 ELSE Ok(<<start[1], end[1]>>)
        ELSE LET page == parse_usize(part)
             IN  IF page = None
                 THEN Err(format("Invalid page number: {}", part))
                 ELSE IF page[1] < 1 \/ page[1] > total
                 THEN Err(format("Page number out of bounds: {}", to_string(page[1])))
                 ELSE Ok(<<page[1], page[1]>>)

\* parse_parts that goes on after a failing part and reports the last failure
RECURSIVE parse_parts_last_error(_, _, _, _)
parse_parts_last_error(parts, i, total, ranges) ==
    IF i > Len(parts) THEN Ok(ranges)
    ELSE LET r == parse_part(parts[i], total)
             rest == parse_parts_last_error(parts, i + 1, total,
                        IF r.ok THEN Append(ranges, r.v) ELSE ranges)
         IN  IF r.ok \/ ~rest.ok THEN rest ELSE r

\* the for loop: parts from index i on, ranges pushed so far; `?` and `return Err`
\* leave the loop at the first failing part
RECURSIVE parse_parts(_, _, _, _)
parse_parts(parts, i, total, ranges) ==
    IF i > Len(parts) THEN Ok(ranges)
    ELSE LET r == parse_part(parts[i], total)
         IN  IF r.ok THEN parse_parts(parts, i + 1, total, Append(ranges, r.v))
             ELSE r

parse_page_ranges(pages, total) == parse_parts(split(pages, ","), 1, total, <<>>)

----------------------------------------------------------------------------
(* Bytes, text and the file system.                                         *)
(* A byte string is a sequence of units: "x" is an ASCII byte, "BOM" the    *)
(* three bytes EF BB BF (the UTF-8 encoding of U+FEFF), "FF" a byte that no *)
(* UTF-8 text contains. A String is a sequence of the characters "x" and    *)
(* "BOM" (U+FEFF); String::into_bytes and str::from_utf8 of valid bytes     *)
(* keep the units.                                                          *)

BOM == "BOM"
BadByte == "FF"

\* decode_utf8 (489-493): strip one leading byte-order mark, then from_utf8
decode_utf8(buf) ==
    LET stripped == IF buf # <<>> /\ Head(buf) = BOM THEN Tail(buf) ELSE buf
    IN  IF \E i \in 1..Len(stripped) : stripped[i] = BadByte
        THEN Err("InvalidUtf8")
        ELSE Ok(stripped)

\* FileId: the main pseudo-file is FileId::new_fake("MARKUP.typ"), distinct from the
\* real identity with the same path
FileId(package, vpath) == [package |-> package, vpath |-> vpath, fake |-> FALSE]
MARKUP_ID == [package |-> None, vpath |-> "MARKUP.typ", fake |-> TRUE]

\* entries of the file system
Missing == [kind |-> "missing"]
Directory == [kind |-> "dir"]
NoPackage == [kind |-> "nopackage"]
File(bytes) == [kind |-> "file", bytes |-> bytes]

\* system_path (461-474) then read_from_disk (480-487), against the file system fs
read(id, fs) ==
    LET entry == fs[<<id.package, id.vpath>>]
    IN  IF id.package # None /\ entry.kind = "nopackage" THEN Err("Package")
        ELSE IF entry.kind = "file" THEN Ok(entry.bytes)
        ELSE IF entry.kind = "dir" THEN Err("IsDirectory")
        ELSE Err("NotFound")

\* typst::utils::hash128 of a load result: a 128-bit SipHash. The model's code
\* is injective (no collisions) and, as for every content of the model in the
\* code, never the 0 that SlotCell::new starts from.
UnitCode(u) == IF u = "x" THEN 1 ELSE IF u = BOM THEN 2 ELSE 3
RECURSIVE BytesCode(_)
BytesCode(b) ==
    IF b = <<>> THEN 0
    ELSE 3 * BytesCode(SubSeq(b, 1, Len(b) - 1)) + UnitCode(b[Len(b)])
hash128(value) ==
    IF value.ok THEN 4 * BytesCode(value.v) + 4
    ELSE IF value.e = "NotFound" THEN 1
    ELSE IF value.e = "IsDirectory" THEN 2
    ELSE 3

----------------------------------------------------------------------------
(* FileCache: SlotCell and FileSlot, lib.rs 353-451 *)

\* Source::new(id, text); Source::replace keeps the id and takes the new text
Source(id, text) == [id |-> id, text |-> text]

\* SlotCell::new (413-419)
SlotCell_new == [data |-> None, fingerprint |-> 0, accessed |-> FALSE]

\* SlotCell::reset that drops the stored result as well
SlotCell_reset_clear(cell) == [cell EXCEPT !.accessed = FALSE, !.data = None]

\* SlotCell::reset (421-423)
SlotCell_reset(cell) == [cell EXCEPT !.accessed = FALSE]

\* the transform of FileSlot::source (380-394)
source_transform(id, data, prev) ==
    LET text == decode_utf8(data)
    IN  IF ~text.ok THEN text
        ELSE IF prev # None THEN Ok(Source(prev[1].id, text.v))
        ELSE Ok(Source(id, text.v))

\* the transform of FileSlot::file (401)
file_transform(data, prev) == Ok(data)

\* the closure f handed to get_or_init: the source transform of a FileSlot with
\* identity f.id, or the file transform
SourceClosure(id) == [kind |-> "source", id |-> id]
FileClosure == [kind |-> "file"]
call(f, data, prev) ==
    IF f.kind = "source" THEN source_transform(f.id, data, prev)
    ELSE file_transform(data, prev)

\* get_or_init that never hands the stored value to the transform
get_or_init_no_prev(cell, load, f) ==
    IF cell.accessed /\ cell.data # None
    THEN [cell |-> cell, value |-> cell.data[1],
          loaded |-> FALSE, transformed |-> FALSE, prev |-> None]
    ELSE LET fingerprint == hash128(load)
             seen == [cell EXCEPT !.accessed = TRUE, !.fingerprint = fingerprint]
         IN  IF cell.fingerprint = fingerprint /\ cell.data # None
             THEN [cell |-> seen, value |-> cell.data[1],
                   loaded |-> TRUE, transformed |-> FALSE, prev |-> None]
             ELSE LET value == IF load.ok THEN call(f, load.v, None) ELSE load
                  IN  [cell |-> [seen EXCEPT !.data = Some(value)], value |-> value,
                       loaded |-> TRUE, transformed |-> load.ok, prev |-> None]

\* get_or_init that keeps the fingerprint of the first load: line 439 without
\* the store into self.fingerprint
get_or_init_keep_fingerprint(cell, load, f) ==
    IF cell.accessed /\ cell.data # None
    THEN [cell |-> cell, value |-> cell.data[1],
          loaded |-> FALSE, transformed |-> FALSE, prev |-> None]
    ELSE LET fingerprint == hash128(load)
             seen == [cell EXCEPT !.accessed = TRUE,
                         !.fingerprint = IF cell.data = None THEN fingerprint
                                         ELSE cell.fingerprint]
         IN  IF cell.fingerprint = fingerprint /\ cell.data # None
             THEN [cell |-> seen, value |-> cell.data[1],
                   loaded |-> TRUE, transformed |-> FALSE, prev |-> None]
             ELSE LET prev == IF cell.data # None /\ cell.data[1].ok
                              THEN Some(cell.data[1].v) ELSE None
                      value == IF load.ok THEN call(f, load.v, prev) ELSE load
                  IN  [cell |-> [seen EXCEPT !.data = Some(value)], value |-> value,
                       loaded |-> TRUE, transformed |-> load.ok, prev |-> prev]

\* get_or_init without the accessed shortcut of lines 430-434: every access loads
get_or_init_always_load(cell, load, f) ==
    LET fingerprint == hash128(load)
        seen == [cell EXCEPT !.accessed = TRUE, !.fingerprint = fingerprint]
    IN  IF cell.fingerprint = fingerprint /\ cell.data # None
        THEN [cell |-> seen, value |-> cell.data[1],
              loaded |-> TRUE, transformed |-> FALSE, prev |-> None]
        ELSE LET prev == IF cell.data # None /\ cell.data[1].ok
                         THEN Some(cell.data[1].v) ELSE None
                 value == IF load.ok THEN call(f, load.v, prev) ELSE load
             IN  [cell |-> [seen EXCEPT !.data = Some(value)], value |-> value,
                  loaded |-> TRUE, transformed |-> load.ok, prev |-> prev]

\* get_or_init that stores successes only: line 447 as `self.data = value.ok()`
get_or_init_errors_not_stored(cell, load, f) ==
    IF cell.accessed /\ cell.data # None
    THEN [cell |-> cell, value |-> cell.data[1],
          loaded |-> FALSE, transformed |-> FALSE, prev |-> None]
    ELSE LET fingerprint == hash128(load)
             seen == [cell EXCEPT !.accessed = TRUE, !.fingerprint = fingerprint]
         IN  IF cell.fingerprint = fingerprint /\ cell.data # None
             THEN [cell |-> seen, value |-> cell.data[1],
                   loaded |-> TRUE, transformed |-> FALSE, prev |-> None]
             ELSE LET prev == IF cell.data # None /\ cell.data[1].ok
                              THEN Some(cell.data[1].v) ELSE None
                      value == IF load.ok THEN call(f, load.v, prev) ELSE load
                  IN  [cell |-> [seen EXCEPT !.data = IF value.ok THEN Some(value)
                                                     ELSE None],
                       value |-> value,
                       loaded |-> TRUE, transformed |-> load.ok, prev |-> prev]

\* SlotCell::get_or_init (425-450). `load` is what the load closure returns if it
\* is called; f is the transform. The result holds the cell afterwards, the value
\* returned, whether load and f ran, and the previous value handed to f.
get_or_init(cell, load, f) ==
    IF cell.accessed /\ cell.data # None
    THEN [cell |-> cell, value |-> cell.data[1],
          loaded |-> FALSE, transformed |-> FALSE, prev |-> None]
    ELSE LET fingerprint == hash128(load)
             seen == [cell EXCEPT !.accessed = TRUE, !.fingerprint = fingerprint]
         IN  IF cell.fingerprint = fingerprint /\ cell.data # None
             THEN [cell |-> seen, value |-> cell.data[1],
                   loaded |-> TRUE, transformed |-> FALSE, prev |-> None]
             ELSE LET prev == IF cell.data # None /\ cell.data[1].ok
                              THEN Some(cell.data[1].v) ELSE None
                      value == IF load.ok THEN call(f, load.v, prev) ELSE load
                  IN  [cell |-> [seen EXCEPT !.data = Some(value)], value |-> value,
                       loaded |-> TRUE, transformed |-> load.ok, prev |-> prev]

\* FileSlot::new (360-366)
FileSlot_new == [source |-> SlotCell_new, file |-> SlotCell_new]

\* FileSlot::reset (368-371)
FileSlot_reset(slot) ==
    [source |-> SlotCell_reset(slot.source), file |-> SlotCell_reset(slot.file)]

\* FileSlot::source (373-396)
FileSlot_source(slot, id, fs) ==
    LET r == get_or_init(slot.source, read(id, fs), SourceClosure(id))
    IN  [r EXCEPT !.cell = [slot EXCEPT !.source = r.cell]]

\* FileSlot::file (398-403)
FileSlot_file(slot, id, fs) ==
    LET r == get_or_init(slot.file, read(id, fs), FileClosure)
    IN  [r EXCEPT !.cell = [slot EXCEPT !.file = r.cell]]

----------------------------------------------------------------------------
(* CompilationWorld: SystemWorld, lib.rs 200-351 *)

\* SystemWorld::reset (253-260), on the slot map
SystemWorld_reset(map) == [id \in DOMAIN map |-> FileSlot_reset(map[id])]

\* SystemWorld::rebuild_library (262-276): the library's inputs dictionary
rebuild_library(ins) == [inputs |-> [k \in DOMAIN ins |-> ins[k]]]

\* SystemWorld::slot (344-350): the entry of id, created when absent
slot_entry(map, id) == IF id \in DOMAIN map THEN map[id] ELSE FileSlot_new

\* a lookup's outcome: the value returned, the slot map afterwards, where the
\* answer came from, and what the cache cell did
Lookup(value, map, via, r) ==
    [value |-> value, slots |-> map, via |-> via,
     loaded |-> r.loaded, transformed |-> r.transformed, prev |-> r.prev]
NoCell == [loaded |-> FALSE, transformed |-> FALSE, prev |-> None]

\* a provider that asks the cache before the overlay
World_source_cache_first(id, mk, vf, map, fs) ==
    IF id = MARKUP_ID THEN Lookup(Ok(Source(id, mk)), map, "markup", NoCell)
    ELSE LET r == FileSlot_source(slot_entry(map, id), id, fs)
         IN  IF r.value.ok \/ id.vpath \notin DOMAIN vf
             THEN Lookup(r.value, MapInsert(map, id, r.cell), "cache", r)
             ELSE Lookup(Ok(Source(id, vf[id.vpath])), MapInsert(map, id, r.cell),
                         "overlay", r)

\* World::source (292-305)
World_source(id, mk, vf, map, fs) ==
    IF id = MARKUP_ID THEN Lookup(Ok(Source(id, mk)), map, "markup", NoCell)
    ELSE IF id.vpath \in DOMAIN vf
    THEN LET text == decode_utf8(vf[id.vpath])
         IN  Lookup(IF text.ok THEN Ok(Source(id, text.v)) ELSE text,
                    map, "overlay", NoCell)
    ELSE LET r == FileSlot_source(slot_entry(map, id), id, fs)
         IN  Lookup(r.value, MapInsert(map, id, r.cell), "cache", r)

\* a raw-bytes lookup whose overlay shadows project files only
World_file_project_only(id, mk, vf, map, fs) ==
    IF id.package = None /\ id.vpath \in DOMAIN vf
    THEN Lookup(Ok(vf[id.vpath]), map, "overlay", NoCell)
    ELSE LET r == FileSlot_file(slot_entry(map, id), id, fs)
         IN  Lookup(r.value, MapInsert(map, id, r.cell), "cache", r)

\* World::file (307-315)
World_file(id, mk, vf, map, fs) ==
    IF id.vpath \in DOMAIN vf
    THEN Lookup(Ok(vf[id.vpath]), map, "overlay", NoCell)
    ELSE LET r == FileSlot_file(slot_entry(map, id), id, fs)
         IN  Lookup(r.value, MapInsert(map, id, r.cell), "cache", r)

----------------------------------------------------------------------------
(* World::today, lib.rs 321-340. Time is counted in hours, a date is the    *)
(* number of its day.                                                       *)

I32Max == 2147483647
\* the offset of the Local time zone, in hours
LocalHours == 1

\* i32::try_from(hours).ok() (328)
i32_try_from(hours) == IF -I32Max - 1 <= hours /\ hours <= I32Max THEN Some(hours) ELSE None
\* i32::checked_mul (328) by a positive b that does not divide 2^31
checked_mul(a, b) ==
    IF -(I32Max \div b) <= a /\ a <= I32Max \div b THEN Some(a * b) ELSE None
\* FixedOffset::east_opt(seconds) (329): under a day either way
east_opt(seconds) == IF -86400 < seconds /\ seconds < 86400 THEN Some(seconds) ELSE None

\* the calendar date of time `utc` seen `seconds` east of UTC (333-337)
from_ymd(utc, seconds) == Some([day |-> (utc * 3600 + seconds) \div 86400])

\* the date of the snapshot `time` under `offset` (326-337)
datetime_today(time, offset) ==
    IF offset = None THEN from_ymd(time, LocalHours * 3600)
    ELSE LET hours == i32_try_from(offset[1])
         IN  IF hours = None THEN None
             ELSE LET seconds == checked_mul(hours[1], 3600)
                  IN  IF seconds = None THEN None
                      ELSE IF east_opt(seconds[1]) = None THEN None
                      ELSE from_ymd(time, seconds[1])

\* a clock cell that is read anew by every query
get_or_init_now_fresh(cell, utc_now) == utc_now

\* OnceLock::get_or_init(Utc::now) (324): the snapshot, taken when there is none
get_or_init_now(cell, utc_now) == IF cell = None THEN utc_now ELSE cell[1]

----------------------------------------------------------------------------
(* DiagnosticMapper, lib.rs 512-606 *)

\* a compiler span: the file it belongs to and its byte range, either may be absent
Span(id, range) == [id |-> id, range |-> range]
Detached == Span(None, None)
SourceDiagnostic(severity, message, span) ==
    [severity |-> severity, message |-> message, span |-> span,
     trace |-> <<>>, hints |-> <<>>]

\* the SystemWorld the handler holds the guard of, with the file system under it
SystemWorld ==
    [markup |-> markup, virtual_files |-> virtual_files, slots |-> slots, disk |-> disk]

\* Lines::byte_to_line (519): the newlines before the offset
byte_to_line(text, byte_offset) ==
    IF byte_offset > Len(text) THEN None
    ELSE Some(Cardinality({i \in 1..byte_offset : text[i] = "\n"}))

\* Lines::byte_to_column (520): the characters between the line start and the offset
byte_to_column(text, byte_offset) ==
    IF byte_offset > Len(text) THEN None
    ELSE LET breaks == {i \in 1..byte_offset : text[i] = "\n"}
             line_start == IF breaks = {} THEN 0
                           ELSE CHOOSE i \in breaks : \A j \in breaks : j <= i
         IN  Some(byte_offset - line_start)

\* resolve_line_column with 0-based positions: the `+ 1` of 519-520 left out
resolve_line_column_zero_based(span, byte_offset, world) ==
    IF span.id = None THEN <<None, None>>
    ELSE LET source == World_source(span.id[1], world.markup, world.virtual_files,
                                    world.slots, world.disk).value
         IN  IF ~source.ok THEN <<None, None>>
             ELSE <<byte_to_line(source.v.text, byte_offset),
                    byte_to_column(source.v.text, byte_offset)>>

\* resolve_line_column (512-526)
resolve_line_column(span, byte_offset, world) ==
    IF span.id = None THEN <<None, None>>
    ELSE LET source == World_source(span.id[1], world.markup, world.virtual_files,
                                    world.slots, world.disk).value
         IN  IF ~source.ok THEN <<None, None>>
             ELSE LET line == byte_to_line(source.v.text, byte_offset)
                      column == byte_to_column(source.v.text, byte_offset)
                  IN  <<IF line = None THEN None ELSE Some(line[1] + 1),
                        IF column = None THEN None ELSE Some(column[1] + 1)>>

\* span_to_nif (528-538)
span_to_nif(span, world) ==
    IF span.range = None THEN None
    ELSE LET line_column == resolve_line_column(span, span.range[1][1], world)
         IN  Some([start |-> span.range[1][1], end |-> span.range[1][2],
                   line |-> line_column[1], column |-> line_column[2]])

\* span_to_nif_simple (540-547)
span_to_nif_simple(span) ==
    IF span.range = None THEN None
    ELSE Some([start |-> span.range[1][1], end |-> span.range[1][2],
               line |-> None, column |-> None])

\* diagnostic_to_nif (549-564)
diagnostic_to_nif(d, world) ==
    [severity |-> d.severity,
     message |-> d.message,
     span |-> span_to_nif(d.span, world),
     trace |-> [j \in 1..Len(d.trace) |->
                  [span |-> span_to_nif(d.trace[j].span, world),
                   message |-> d.trace[j].message]],
     hints |-> d.hints]

\* diagnostics_to_vec (566-574)
diagnostics_to_vec(diagnostics, world) ==
    [i \in 1..Len(diagnostics) |-> diagnostic_to_nif(diagnostics[i], world)]

\* the files whose source the mapper asks the World for (516): those of the
\* spans that have a byte range
resolved_ids(diagnostics) ==
    LET spans == {diagnostics[i].span : i \in 1..Len(diagnostics)}
                 \cup UNION {{diagnostics[i].trace[j].span :
                                 j \in 1..Len(diagnostics[i].trace)} :
                             i \in 1..Len(diagnostics)}
    IN  {sp.id[1] : sp \in {x \in spans : x.range # None /\ x.id # None}}

\* the slot map after the mapper has asked for the source of each of ids
RECURSIVE resolved_slots(_, _)
resolved_slots(ids, world) ==
    IF ids = {} THEN world.slots
    ELSE LET id == CHOOSE x \in ids : TRUE
             after == World_source(id, world.markup, world.virtual_files,
                                   world.slots, world.disk).slots
         IN  resolved_slots(ids \ {id}, [world EXCEPT !.slots = after])

\* diagnostics_to_vec_simple (576-594)
diagnostics_to_vec_simple(diagnostics) ==
    [i \in 1..Len(diagnostics) |->
        [severity |-> diagnostics[i].severity,
         message |-> diagnostics[i].message,
         span |-> span_to_nif_simple(diagnostics[i].span),
         trace |-> [j \in 1..Len(diagnostics[i].trace) |->
                      [span |-> span_to_nif_simple(diagnostics[i].trace[j].span),
                       message |-> diagnostics[i].trace[j].message]],
         hints |-> diagnostics[i].hints]]

\* simple_error (596-606)
simple_error(message) ==
    [diagnostics |-> << [severity |-> "error", message |-> message, span |-> None,
                         trace |-> <<>>, hints |-> <<>>] >>]

NoDocumentMessage == format("No compiled document. Call compile() first.", <<>>)
PageIndexMessage(page, len) ==
    format("Page index {} out of bounds (document has {} pages)", <<page, len>>)

----------------------------------------------------------------------------
(* External collaborators: what the compiler and the serializer may return *)

\* a PagedDocument: its pages, and the world content it was laid out from
PagedDocument(n, mk, vf) == [pages |-> n, from |-> [markup |-> mk, virtual_files |-> vf]]

WarningLists == {<<>>, <<SourceDiagnostic("warning", "unused", Detached)>>}
ErrorLists == {<<SourceDiagnostic("error", "unknown variable", Detached)>>}
PdfErrorLists ==
    {<<SourceDiagnostic("error", "pdf", Span(Some(MARKUP_ID), Some(<<0, 1>>)))>>}

\* typst::compile::<PagedDocument>(&world) (671): Warned {output, warnings}
CompileOutcomes(mk, vf) ==
    {[output |-> Ok(PagedDocument(n, mk, vf)), warnings |-> w] :
        n \in 1..MaxPages, w \in WarningLists}
    \cup {[output |-> Err(e), warnings |-> <<>>] : e \in ErrorLists}

\* typst::compile::<HtmlDocument> then typst_html::html (799-801)
HtmlOutcomes == {Ok("html")} \cup {Err(e) : e \in ErrorLists}

\* typst_pdf::pdf(document, &pdf_opts) (729)
PdfOutcomes(doc, page_ranges) ==
    {Ok([pdf_of |-> doc, page_ranges |-> page_ranges])}
    \cup {Err(e) : e \in PdfErrorLists}

\* PdfOptionsNif::to_pdf_options (182-197): PdfStandards::new refuses two PDF/A
\* standards together
to_pdf_options(opts) ==
    IF \E i, j \in 1..Len(opts.pdf_standards) :
          opts.pdf_standards[i] = "pdf_a_2b" /\ opts.pdf_standards[j] = "pdf_a_3b"
    THEN Err(format("Invalid PDF standards: {}", <<"incompatible">>))
    ELSE Ok([standards |-> opts.pdf_standards, page_ranges |-> None])

Selectors == {None, Some(<<"1">>), Some(<<"2", ",", "1">>), Some(<<"1", "-", "2">>),
              Some(<<"0">>)}
StandardsLists == {<<>>, <<"pdf_a_2b", "pdf_a_3b">>}
PdfOptionsNif == [pages : Selectors, pdf_standards : StandardsLists]

----------------------------------------------------------------------------
(* CompilationContext: the NIF handlers, lib.rs 647-811.                    *)
(* A handler that takes the world guard runs only while no other handler    *)
(* holds it (pc = "idle"). context_compile and context_export_html hold it  *)
(* across the compiler run: they are split at the call of typst::compile,   *)
(* during which the compiler calls back into World::source and World::file. *)
(* The handlers that take the document guard under the world guard are      *)
(* split at ctx.document.lock(), where they wait while a render or an       *)
(* export, which take the document guard only, holds it.                    *)

Returned(op, val) == [op |-> op, val |-> val]
NoObs == [kind |-> "none"]

\* context_new (647-656)
context_new ==
    /\ markup = <<>>
    /\ virtual_files = EmptyMap
    /\ inputs = EmptyMap
    /\ library = [inputs |-> EmptyMap]
    /\ slots = EmptyMap
    /\ document = None
    /\ pc = "idle"
    /\ ret = Returned("context_new", "resource")
    /\ last_compile = None
    /\ mutated = FALSE
    /\ obs = NoObs
    /\ loads = EmptyMap
    /\ now = None

\* context_set_markup (658-662): take the world guard, change the world and go
\* to the document lock
context_set_markup(m) ==
    /\ pc = "idle"
    /\ pc' = "set_markup"
    /\ markup' = m
    /\ slots' = SystemWorld_reset(slots)
    /\ loads' = EmptyMap
    /\ UNCHANGED <<virtual_files, inputs, library, document, ret, mutated,
                   last_compile, disk, obs>>
    /\ now' = None
    /\ UNCHANGED aside_vars

\* the handlers that clear the document after their change of the world
ClearingHandlers == {"set_markup", "set_virtual_file", "clear_virtual_file"}

\* `*ctx.document.lock() = None; ok()` of context_set_markup (663-664),
\* context_set_virtual_file (752-753) and context_clear_virtual_file (775-776):
\* the document guard is taken under the world guard, the slot cleared, and the
\* handler returns
document_clear ==
    /\ pc \in ClearingHandlers
    /\ pc' = "idle"
    /\ document' = None
    /\ mutated' = TRUE
    /\ ret' = Returned(pc, "ok")
    /\ UNCHANGED <<markup, virtual_files, inputs, library, slots,
                   last_compile, disk, obs, loads>>
    /\ UNCHANGED now
    /\ UNCHANGED aside_vars

\* context_compile (667-670): take the world guard, reset, enter the compiler
compile_begin ==
    /\ pc = "idle"
    /\ pc' = "compile"
    /\ slots' = SystemWorld_reset(slots)
    /\ loads' = EmptyMap
    /\ UNCHANGED <<markup, virtual_files, inputs, library, document, ret,
                   last_compile, mutated, disk, obs>>
    /\ now' = None
    /\ UNCHANGED aside_vars

\* compile_store with line 684 left out: a failed compile keeps the old document
compile_store_keep(output) == IF output.ok THEN Some(output.v) ELSE document

\* the document slot after the compiler returned `output` (676, 684)
compile_store(output) == IF output.ok THEN Some(output.v) ELSE None

\* compile_return that reports the pages of the document stored so far
compile_return_stored_pages(outcome) ==
    IF outcome.output.ok
    THEN Ok([page_count |-> IF document # None THEN document[1].pages
                            ELSE outcome.output.v.pages,
             warnings |-> diagnostics_to_vec(outcome.warnings, SystemWorld)])
    ELSE Err([diagnostics |-> diagnostics_to_vec(outcome.output.e, SystemWorld)])

\* what context_compile returns (674-686)
compile_return(outcome) ==
    IF outcome.output.ok
    THEN Ok([page_count |-> outcome.output.v.pages,
             warnings |-> diagnostics_to_vec(outcome.warnings, SystemWorld)])
    ELSE Err([diagnostics |-> diagnostics_to_vec(outcome.output.e, SystemWorld)])

\* context_compile (671-688): the compiler returned `outcome`
compile_end(outcome) ==
    /\ pc = "compile"
    /\ pc' = "idle"
    /\ document' = compile_store(outcome.output)
    /\ ret' = Returned("compile", compile_return(outcome))
    /\ last_compile' = Some([ok |-> outcome.output.ok, markup |-> markup,
                             virtual_files |-> virtual_files])
    /\ mutated' = FALSE
    /\ slots' = resolved_slots(resolved_ids(IF outcome.output.ok THEN outcome.warnings
                                            ELSE outcome.output.e),
                               SystemWorld)
    /\ UNCHANGED <<markup, virtual_files, inputs, library, disk, obs, loads>>
    /\ UNCHANGED now
    /\ UNCHANGED aside_vars

\* render_svg with `>` for `>=` in the bounds check of line 700
render_svg_past_end(doc, page) ==
    IF doc = None THEN Err(simple_error(NoDocumentMessage))
    ELSE IF page > doc[1].pages
    THEN Err(simple_error(PageIndexMessage(page, doc[1].pages)))
    ELSE Ok([svg_of |-> doc[1], page |-> page])

\* what context_render_svg returns (695-708)
render_svg(doc, page) ==
    IF doc = None THEN Err(simple_error(NoDocumentMessage))
    ELSE IF page >= doc[1].pages
    THEN Err(simple_error(PageIndexMessage(page, doc[1].pages)))
    ELSE Ok([svg_of |-> doc[1], page |-> page])

\* context_render_svg (690-709): takes the document guard only
context_render_svg(page) ==
    /\ ret' = Returned("render", render_svg(document, page))
    /\ UNCHANGED <<markup, virtual_files, inputs, library, slots, document, pc,
                   last_compile, mutated, disk, obs, loads>>
    /\ UNCHANGED now
    /\ UNCHANGED aside_vars

\* export_prepare with the options validated before the document is looked at
export_prepare_opts_first(doc, opts) ==
    LET pdf_opts == to_pdf_options(opts)
    IN  IF ~pdf_opts.ok THEN Err(simple_error(pdf_opts.e))
        ELSE IF doc = None THEN Err(simple_error(NoDocumentMessage))
        ELSE IF opts.pages = None THEN Ok(None)
        ELSE LET ranges == parse_page_ranges(opts.pages[1], doc[1].pages)
             IN  IF ranges.ok THEN Ok(Some(ranges.v))
                 ELSE Err(simple_error(ranges.e))

\* context_export_pdf up to the serializer call (717-727): Err(error) or
\* Ok(the page ranges handed to typst_pdf::pdf)
export_prepare(doc, opts) ==
    IF doc = None THEN Err(simple_error(NoDocumentMessage))
    ELSE LET pdf_opts == to_pdf_options(opts)
         IN  IF ~pdf_opts.ok THEN Err(simple_error(pdf_opts.e))
             ELSE IF opts.pages = None THEN Ok(None)
             ELSE LET ranges == parse_page_ranges(opts.pages[1], doc[1].pages)
                  IN  IF ranges.ok THEN Ok(Some(ranges.v))
                      ELSE Err(simple_error(ranges.e))

\* context_export_pdf (711-736): takes the document guard only
context_export_pdf(opts) ==
    /\ LET prepared == export_prepare(document, opts)
       IN  IF ~prepared.ok THEN ret' = Returned("export", prepared)
           ELSE \E pdf \in PdfOutcomes(document[1], prepared.v) :
                   ret' = Returned("export",
                       IF pdf.ok THEN pdf
                       ELSE Err([diagnostics |-> diagnostics_to_vec_simple(pdf.e)]))
    /\ UNCHANGED <<markup, virtual_files, inputs, library, slots, document, pc,
                   last_compile, mutated, disk, obs, loads>>
    /\ UNCHANGED now
    /\ UNCHANGED aside_vars

\* context_font_families (738-746)
context_font_families ==
    /\ pc = "idle"
    /\ ret' = Returned("font_families", "families")
    /\ UNCHANGED <<markup, virtual_files, inputs, library, slots, document, pc,
                   last_compile, mutated, disk, obs, loads>>
    /\ UNCHANGED now
    /\ UNCHANGED aside_vars

\* context_set_virtual_file with line 752 left out: it returns after its change
\* of the overlay and the document is kept
context_set_virtual_file_keep(path, content) ==
    /\ pc = "idle"
    /\ virtual_files' = MapInsert(virtual_files, path, content)
    /\ mutated' = TRUE
    /\ ret' = Returned("set_virtual_file", "ok")
    /\ UNCHANGED <<markup, inputs, library, slots, pc, last_compile, disk, obs, loads>>
    /\ UNCHANGED document
    /\ UNCHANGED now
    /\ UNCHANGED aside_vars

\* context_set_virtual_file (748-751): take the world guard, change the overlay
\* and go to the document lock
context_set_virtual_file(path, content) ==
    /\ pc = "idle"
    /\ pc' = "set_virtual_file"
    /\ virtual_files' = MapInsert(virtual_files, path, content)
    /\ UNCHANGED <<markup, inputs, library, slots, document, ret, mutated,
                   last_compile, disk, obs, loads>>
    /\ UNCHANGED now
    /\ UNCHANGED aside_vars

\* append_bytes that inserts the chunk as the whole content
append_bytes_replace(vf, path, chunk) == MapInsert(vf, path, chunk)

\* the overlay after context_append_virtual_file (763-767)
append_bytes(vf, path, chunk) ==
    MapInsert(vf, path, (IF path \in DOMAIN vf THEN vf[path] ELSE <<>>) \o chunk)

\* the document slot after context_append_virtual_file (756-769): not touched
append_document(doc) == doc

\* context_append_virtual_file (756-769)
context_append_virtual_file(path, chunk) ==
    /\ pc = "idle"
    /\ Len(append_bytes(virtual_files, path, chunk)[path]) <= MaxLen
    /\ virtual_files' = append_bytes(virtual_files, path, chunk)
    /\ document' = append_document(document)
    /\ ret' = Returned("append_virtual_file", "ok")
    /\ UNCHANGED <<markup, inputs, library, slots, pc, last_compile, mutated, disk, obs, loads>>
    /\ UNCHANGED now
    /\ UNCHANGED aside_vars

\* context_clear_virtual_file (771-774): take the world guard, change the
\* overlay and go to the document lock
context_clear_virtual_file(path) ==
    /\ pc = "idle"
    /\ pc' = "clear_virtual_file"
    /\ virtual_files' = MapRemove(virtual_files, path)
    /\ UNCHANGED <<markup, inputs, library, slots, document, ret, mutated,
                   last_compile, disk, obs, loads>>
    /\ UNCHANGED now
    /\ UNCHANGED aside_vars

\* context_set_input (779-785)
context_set_input(key, value) ==
    /\ pc = "idle"
    /\ inputs' = MapInsert(inputs, key, value)
    /\ library' = rebuild_library(inputs')
    /\ ret' = Returned("set_input", "ok")
    /\ UNCHANGED <<markup, virtual_files, slots, document, pc, last_compile, mutated,
                   disk, obs, loads>>
    /\ UNCHANGED now
    /\ UNCHANGED aside_vars

\* context_set_inputs that extends the bindings instead of replacing them
context_set_inputs_merge(map) ==
    /\ pc = "idle"
    /\ inputs' = [k \in (DOMAIN inputs) \cup (DOMAIN map) |->
                     IF k \in DOMAIN map THEN map[k] ELSE inputs[k]]
    /\ library' = rebuild_library(inputs')
    /\ ret' = Returned("set_inputs", "ok")
    /\ UNCHANGED <<markup, virtual_files, slots, document, pc, last_compile, mutated,
                   disk, obs, loads>>
    /\ UNCHANGED now
    /\ UNCHANGED aside_vars

\* context_set_inputs (787-793)
context_set_inputs(map) ==
    /\ pc = "idle"
    /\ inputs' = map
    /\ library' = rebuild_library(inputs')
    /\ ret' = Returned("set_inputs", "ok")
    /\ UNCHANGED <<markup, virtual_files, slots, document, pc, last_compile, mutated,
                   disk, obs, loads>>
    /\ UNCHANGED now
    /\ UNCHANGED aside_vars

\* context_export_html (795-798): take the world guard, reset, enter the compiler
export_html_begin ==
    /\ pc = "idle"
    /\ pc' = "html"
    /\ slots' = SystemWorld_reset(slots)
    /\ loads' = EmptyMap
    /\ UNCHANGED <<markup, virtual_files, inputs, library, document, ret,
                   last_compile, mutated, disk, obs>>
    /\ now' = None
    /\ UNCHANGED aside_vars

\* context_export_html that clears the stored document on failure, as
\* context_compile does
export_html_end_clears(outcome) ==
    /\ pc = "html"
    /\ pc' = "idle"
    /\ ret' = Returned("export_html",
                 IF outcome.ok THEN outcome
                 ELSE Err([diagnostics |-> diagnostics_to_vec(outcome.e, SystemWorld)]))
    /\ slots' = resolved_slots(resolved_ids(IF outcome.ok THEN <<>> ELSE outcome.e),
                               SystemWorld)
    /\ document' = IF outcome.ok THEN document ELSE None
    /\ UNCHANGED <<markup, virtual_files, inputs, library,
                   last_compile, mutated, disk, obs, loads>>
    /\ UNCHANGED now
    /\ UNCHANGED aside_vars

\* context_export_html (799-811): the compiler and typst_html::html returned
export_html_end(outcome) ==
    /\ pc = "html"
    /\ pc' = "idle"
    /\ ret' = Returned("export_html",
                 IF outcome.ok THEN outcome
                 ELSE Err([diagnostics |-> diagnostics_to_vec(outcome.e, SystemWorld)]))
    /\ slots' = resolved_slots(resolved_ids(IF outcome.ok THEN <<>> ELSE outcome.e),
                               SystemWorld)
    /\ UNCHANGED <<markup, virtual_files, inputs, library, document,
                   last_compile, mutated, disk, obs, loads>>
    /\ UNCHANGED now
    /\ UNCHANGED aside_vars

----------------------------------------------------------------------------
(* The World provider as the compiler calls it, and the file system *)

\* one more, counted 0, 1, "more"
Bump(n) == IF n = 0 THEN 1 ELSE 2
Count(cell) == IF cell \in DOMAIN loads THEN loads[cell] ELSE 0

\* the cache cell of identity id that a lookup of `kind` uses, before the lookup
CellOf(map, id, kind) ==
    IF kind = "source" THEN slot_entry(map, id).source ELSE slot_entry(map, id).file

\* what a lookup leaves in obs and loads
Observe(kind, id, r) ==
    /\ slots' = r.slots
    /\ obs' = [kind |-> kind, id |-> id, value |-> r.value, via |-> r.via,
               loaded |-> r.loaded, transformed |-> r.transformed, prev |-> r.prev,
               nth |-> IF r.via # "cache" THEN 0
                       ELSE IF <<id, kind>> \in DOMAIN loads THEN 2 ELSE 1,
               before |-> CellOf(slots, id, kind),
               load |-> IF id = MARKUP_ID /\ kind = "source" THEN None
                        ELSE Some(read(id, disk))]
    /\ loads' = IF r.via = "cache"
                THEN MapInsert(loads, <<id, kind>>,
                        IF r.loaded THEN Bump(Count(<<id, kind>>))
                        ELSE Count(<<id, kind>>))
                ELSE loads

\* typst::compile is running (671, 797), under the world guard
InCompiler == pc \in {"compile", "html"}

\* the compiler (or the diagnostic mapper) calls World::source(id) (292-305)
world_source(id) ==
    /\ InCompiler
    /\ Observe("source", id, World_source(id, markup, virtual_files, slots, disk))
    /\ UNCHANGED <<markup, virtual_files, inputs, library, document, pc, ret,
                   last_compile, mutated, disk>>
    /\ UNCHANGED now
    /\ UNCHANGED aside_vars

\* the compiler calls World::file(id) (307-315)
world_file(id) ==
    /\ InCompiler
    /\ Observe("file", id, World_file(id, markup, virtual_files, slots, disk))
    /\ UNCHANGED <<markup, virtual_files, inputs, library, document, pc, ret,
                   last_compile, mutated, disk>>
    /\ UNCHANGED now
    /\ UNCHANGED aside_vars

\* the compiler calls World::today(offset) (321-340)
world_today(offset) ==
    /\ InCompiler
    /\ now' = Some(get_or_init_now(now, clock))
    /\ today_ret' = Some([offset |-> offset, first |-> now = None,
                          value |-> datetime_today(now'[1], offset)])
    /\ UNCHANGED <<markup, virtual_files, inputs, library, slots, document, pc, ret,
                   last_compile, mutated, disk, obs, loads>>
    /\ UNCHANGED <<clock, parse_vars, thread_vars, diag_vars, result>>

\* time passes
tick ==
    /\ clock < MaxClock
    /\ clock' = clock + 1
    /\ UNCHANGED <<markup, virtual_files, inputs, library, slots, document, pc, ret,
                   last_compile, mutated, disk, obs, loads, now>>
    /\ UNCHANGED <<today_ret, parse_vars, thread_vars, diag_vars, result>>

\* the environment changes the file system entry at loc
disk_write(loc, entry) ==
    /\ disk[loc] # entry
    /\ disk' = [disk EXCEPT ![loc] = entry]
    /\ UNCHANGED <<markup, virtual_files, inputs, library, slots, document, pc, ret,
                   last_compile, mutated, obs, loads>>
    /\ UNCHANGED now
    /\ UNCHANGED aside_vars

----------------------------------------------------------------------------
(* Spec: the session of one context, with one overlay path. The files the   *)
(* compiler asks for are not part of this specification: the slot map       *)
(* stays as context_new left it and the file system does not change.        *)

NoDisk == [loc \in {} |-> Missing]

\* the parts of the state a specification does not use, at rest
NoParse == sel_pages = <<>> /\ sel_total = 0 /\ sel_result = None
NoClock == clock = 0 /\ today_ret = None
NoThreads ==
    /\ threads = <<>>
    /\ world_guard = None /\ document_guard = None /\ slots_lock = None
NoDiagnostics == diags = <<>> /\ diag_result = None /\ result = None

Init ==
    /\ context_new
    /\ disk = NoDisk
    /\ NoParse /\ NoClock /\ NoThreads /\ NoDiagnostics

Next ==
    \/ \E m \in Markups : context_set_markup(m)
    \/ compile_begin
    \/ \E outcome \in CompileOutcomes(markup, virtual_files) : compile_end(outcome)
    \/ \E page \in 0..MaxPages : context_render_svg(page)
    \/ \E opts \in PdfOptionsNif : context_export_pdf(opts)
    \/ context_font_families
    \/ \E path \in SessionPaths, content \in Contents : context_set_virtual_file(path, content)
    \/ \E path \in SessionPaths, chunk \in Contents : context_append_virtual_file(path, chunk)
    \/ \E path \in SessionPaths : context_clear_virtual_file(path)
    \/ \E key \in InputKeys, value \in InputValues : context_set_input(key, value)
    \/ \E map \in InputMaps : context_set_inputs(map)
    \/ export_html_begin
    \/ \E outcome \in HtmlOutcomes : export_html_end(outcome)
    \/ document_clear

Spec == Init /\ [][Next]_vars

----------------------------------------------------------------------------
(* Claims about the session (Spec) *)

IsPrefix(s, t) == Len(s) <= Len(t) /\ SubSeq(t, 1, Len(s)) = s

\* C1: a document is stored if and only if some compile succeeded and no failed
\* compile, set_markup, set_virtual_file or clear_virtual_file has run since it;
\* right after a successful compile the stored document is the one that compile
\* produced, and right after a failed compile none is stored.
C1_StoredIffCompiledAndUnchanged ==
    /\ (document # None) <=>
          (last_compile # None /\ last_compile[1].ok /\ ~mutated)
    /\ (ret.op = "compile" /\ ret.val.ok) =>
          /\ document # None
          /\ document[1].pages = ret.val.v.page_count
          /\ document[1].from = [markup |-> last_compile[1].markup,
                                 virtual_files |-> last_compile[1].virtual_files]
    /\ (ret.op = "compile" /\ ~ret.val.ok) => document = None

\* a document compiled from changed markup is still stored after
\* append_virtual_file and set_inputs ran on the compiled context
C1_Witness ==
    /\ document # None /\ ret.op = "set_inputs" /\ markup # <<>>
    /\ virtual_files # document[1].from.virtual_files

\* C2 as stated: if a document is stored, the current markup and overlay equal
\* those the most recent compile ran against.
C2_StoredMatchesLastCompile ==
    document # None =>
        /\ last_compile # None
        /\ markup = last_compile[1].markup
        /\ virtual_files = last_compile[1].virtual_files

\* C2 amended: if a document is stored and no set_markup, set_virtual_file or
\* clear_virtual_file is between its change of the world and its clearing of
\* the document, the current markup equals the markup of the most recent
\* compile, and the overlay is that compile's overlay changed by
\* append_virtual_file only: every entry of then is still there and its content
\* of then is a prefix of its content now.
C2_StoredMatchesUpToAppend ==
    (document # None /\ pc \notin ClearingHandlers) =>
        /\ last_compile # None
        /\ markup = last_compile[1].markup
        /\ \A p \in DOMAIN last_compile[1].virtual_files :
              /\ p \in DOMAIN virtual_files
              /\ IsPrefix(last_compile[1].virtual_files[p], virtual_files[p])

\* a document is stored although append_virtual_file changed the overlay after
\* the compile
C2_Witness ==
    /\ document # None
    /\ ret.op = "append_virtual_file"
    /\ virtual_files # last_compile[1].virtual_files

\* C3: when no document is stored, render and export return the Precondition
\* error: one Error diagnostic without span, trace or hints, saying that no
\* document is compiled.
C3_EmptyGivesPrecondition ==
    (ret.op \in {"render", "export"} /\ document = None) =>
        /\ ~ret.val.ok
        /\ Len(ret.val.e.diagnostics) = 1
        /\ ret.val.e.diagnostics[1].severity = "error"
        /\ ret.val.e.diagnostics[1].message.text
              = "No compiled document. Call compile() first."
        /\ ret.val.e.diagnostics[1].span = None
        /\ ret.val.e.diagnostics[1].trace = <<>>
        /\ ret.val.e.diagnostics[1].hints = <<>>

\* export returned while the context was Empty after a failed compile
C3_Witness ==
    /\ ret.op = "export" /\ document = None
    /\ last_compile # None /\ ~last_compile[1].ok /\ ~mutated

\* the one spanless Error diagnostic of a Precondition failure
Precondition(val, text, arg) ==
    /\ ~val.ok
    /\ Len(val.e.diagnostics) = 1
    /\ val.e.diagnostics[1].severity = "error"
    /\ val.e.diagnostics[1].span = None
    /\ val.e.diagnostics[1].message.text = text
    /\ val.e.diagnostics[1].message.arg = arg

\* C13: with a stored document of n pages render(i) renders exactly page i when
\* i < n and fails with one spanless Error diagnostic naming i and n when
\* i >= n; without a document it fails with the missing-document error whatever
\* i is; render changes neither the document, the markup, the overlay nor the
\* cache.
C13_RenderPageOrBounds ==
    [][\A page \in 0..MaxPages :
          context_render_svg(page) =>
              /\ ret'.op = "render"
              /\ document = None =>
                    Precondition(ret'.val, "No compiled document. Call compile() first.",
                                 <<>>)
              /\ (document # None /\ page < document[1].pages) =>
                    ret'.val = Ok([svg_of |-> document[1], page |-> page])
              /\ (document # None /\ page >= document[1].pages) =>
                    Precondition(ret'.val,
                        "Page index {} out of bounds (document has {} pages)",
                        <<page, document[1].pages>>)
              /\ UNCHANGED <<document, markup, virtual_files, slots, now>>]_vars

\* render(n) was refused against a stored document of n pages
C13_Witness ==
    /\ ret.op = "render" /\ document # None
    /\ Precondition(ret.val, "Page index {} out of bounds (document has {} pages)",
                    <<document[1].pages, document[1].pages>>)

----------------------------------------------------------------------------
(* SpecParse: parse_page_ranges applied to every selector string of at most *)
(* MaxSel characters and every total of at most MaxTotal pages.             *)

SelChars == {"0", "1", "2", ",", "-", " ", "+"}
SelectorStrings == SeqsUpTo(SelChars, MaxSel)

InitParse ==
    /\ context_new
    /\ disk = NoDisk
    /\ sel_pages \in SelectorStrings
    /\ sel_total \in 0..MaxTotal
    /\ sel_result = None
    /\ NoClock /\ NoThreads /\ NoDiagnostics

\* a call of parse_page_ranges (726)
parse_call ==
    /\ sel_result = None
    /\ sel_result' = Some(parse_page_ranges(sel_pages, sel_total))
    /\ UNCHANGED <<sel_pages, sel_total>>
    /\ UNCHANGED <<markup, virtual_files, inputs, library, slots, document, pc, ret,
                   last_compile, mutated, disk, obs, loads, now>>
    /\ UNCHANGED <<clock_vars, thread_vars, diag_vars, result>>

NextParse == parse_call

SpecParse == InitParse /\ [][NextParse]_vars

----------------------------------------------------------------------------
(* Claims about the page-range parser (SpecParse) *)

\* the grammar, stated apart from the parser
AllDigits(s) == s # <<>> /\ \A i \in 1..Len(s) : IsDigit(s[i])
RECURSIVE Decimal(_)
Decimal(s) == IF s = <<>> THEN 0 ELSE Decimal(Tail(s)) + DigitVal(Head(s)) * 10^(Len(s) - 1)

\* a bare integer, and a range N-M of two bare integers
BareToken(t, T) == AllDigits(t) /\ Decimal(t) >= 1 /\ Decimal(t) <= T
BareRange(t, T, i) ==
    /\ t[i] = "-"
    /\ AllDigits(SubSeq(t, 1, i - 1)) /\ AllDigits(SubSeq(t, i + 1, Len(t)))
    /\ 1 <= Decimal(SubSeq(t, 1, i - 1))
    /\ Decimal(SubSeq(t, 1, i - 1)) <= Decimal(SubSeq(t, i + 1, Len(t)))
    /\ Decimal(SubSeq(t, i + 1, Len(t))) <= T
BareValid(t, T) == BareToken(t, T) \/ \E i \in 1..Len(t) : BareRange(t, T, i)
BareRangeOf(t) ==
    IF AllDigits(t) THEN <<Decimal(t), Decimal(t)>>
    ELSE LET i == CHOOSE i \in 1..Len(t) : t[i] = "-"
         IN  <<Decimal(SubSeq(t, 1, i - 1)), Decimal(SubSeq(t, i + 1, Len(t)))>>

\* an integer that may carry one leading '+', blanks around it ignored
Unsigned(s) == LET t == trim(s) IN IF t # <<>> /\ Head(t) = "+" THEN Tail(t) ELSE t
SignedToken(t, T) ==
    AllDigits(Unsigned(t)) /\ Decimal(Unsigned(t)) >= 1 /\ Decimal(Unsigned(t)) <= T
SignedRange(t, T, i) ==
    /\ t[i] = "-"
    /\ AllDigits(Unsigned(SubSeq(t, 1, i - 1)))
    /\ AllDigits(Unsigned(SubSeq(t, i + 1, Len(t))))
    /\ 1 <= Decimal(Unsigned(SubSeq(t, 1, i - 1)))
    /\ Decimal(Unsigned(SubSeq(t, 1, i - 1))) <= Decimal(Unsigned(SubSeq(t, i + 1, Len(t))))
    /\ Decimal(Unsigned(SubSeq(t, i + 1, Len(t)))) <= T
SignedValid(t, T) == SignedToken(t, T) \/ \E i \in 1..Len(t) : SignedRange(t, T, i)
SignedRangeOf(t) ==
    IF AllDigits(Unsigned(t)) THEN <<Decimal(Unsigned(t)), Decimal(Unsigned(t))>>
    ELSE LET i == CHOOSE i \in 1..Len(t) : t[i] = "-"
         IN  <<Decimal(Unsigned(SubSeq(t, 1, i - 1))),
               Decimal(Unsigned(SubSeq(t, i + 1, Len(t))))>>

\* the comma-separated tokens of the selector, each trimmed
Tokens == LET parts == split(sel_pages, ",") IN [i \in 1..Len(parts) |-> trim(parts[i])]

\* the example of the claim: parse("1-3,5,7-9", 10)
ClaimExample == parse_page_ranges(<<"1", "-", "3", ",", "5", ",", "7", "-", "9">>, 10)

\* C9 as stated: parse succeeds exactly when every trimmed token is a bare
\* positive integer N with 1 <= N <= T or a range N-M with 1 <= N <= M <= T, and
\* then returns one range per token, in input order.
C9_BareGrammar ==
    sel_result # None =>
        /\ sel_result[1].ok <=> \A i \in 1..Len(Tokens) : BareValid(Tokens[i], sel_total)
        /\ sel_result[1].ok =>
              sel_result[1].v = [i \in 1..Len(Tokens) |-> BareRangeOf(Tokens[i])]

\* C9 amended: the same, where each integer may carry one leading '+' and, in a
\* range, blanks around each of the two integers are ignored.
C9_SignedGrammar ==
    /\ sel_result # None =>
        /\ sel_result[1].ok <=> \A i \in 1..Len(Tokens) : SignedValid(Tokens[i], sel_total)
        /\ sel_result[1].ok =>
              sel_result[1].v = [i \in 1..Len(Tokens) |-> SignedRangeOf(Tokens[i])]
    /\ ClaimExample = Ok(<<<<1, 3>>, <<5, 5>>, <<7, 9>>>>)

\* a range followed by a page inside it: returned unmerged, in input order
C9_Witness ==
    /\ sel_result # None /\ sel_result[1].ok
    /\ sel_result[1].v = <<<<1, 2>>, <<1, 1>>>>

\* the first token that is not valid, 0 when every token is valid
FirstInvalid ==
    IF \A i \in 1..Len(Tokens) : SignedValid(Tokens[i], sel_total) THEN 0
    ELSE CHOOSE i \in 1..Len(Tokens) :
            /\ ~SignedValid(Tokens[i], sel_total)
            /\ \A j \in 1..(i - 1) : SignedValid(Tokens[j], sel_total)

\* C10 as stated: when some token is invalid, parse returns an error (and no
\* ranges) that names the first invalid token.
C10_NamesFirstInvalidToken ==
    (sel_result # None /\ FirstInvalid # 0) =>
        /\ ~sel_result[1].ok
        /\ sel_result[1].e.arg = Tokens[FirstInvalid]

\* the plain decimal form of the integer a token holds
IsPlainDecimalOf(s, t) ==
    AllDigits(s) /\ Decimal(s) = Decimal(Unsigned(t)) /\ (Len(s) = 1 \/ Head(s) # "0")

\* C10 amended: when some token is invalid, parse returns an error (and no
\* ranges) about the first invalid token: it names that token as trimmed, except
\* that a single page out of bounds is named by its number in plain decimal
\* (without '+' and leading zeros).
C10_NamesFirstInvalid ==
    (sel_result # None /\ FirstInvalid # 0) =>
        LET t == Tokens[FirstInvalid]
            e == sel_result[1].e
        IN  /\ ~sel_result[1].ok
            /\ IF AllDigits(Unsigned(t))
               THEN e.text = "Page number out of bounds: {}" /\ IsPlainDecimalOf(e.arg, t)
               ELSE /\ e.arg = t
                    /\ e.text \in IF contains(t, "-")
                                  THEN {"Invalid page number in range: {}",
                                        "Page range out of bounds: {}"}
                                  ELSE {"Invalid page number: {}"}

\* the second of three tokens is the first invalid one and the third is invalid too
C10_Witness ==
    /\ sel_result # None /\ ~sel_result[1].ok
    /\ Len(Tokens) = 3 /\ FirstInvalid = 2
    /\ ~SignedValid(Tokens[3], sel_total)
    /\ Tokens[3] # Tokens[2]

----------------------------------------------------------------------------
(* SpecCache: the FileCache under repeated compiles. One identity (two      *)
(* cells: parsed source and raw bytes) whose file the environment replaces, *)
(* removes or turns into a directory at any time, also during a compile.    *)

CacheIds == {FileId(None, "a.typ")}
CacheEntries == {Missing, Directory, File(<<>>), File(<<"x">>), File(<<BadByte>>)}
CacheLocs == {<<id.package, id.vpath>> : id \in CacheIds}
CacheOutcomes ==
    {[output |-> Ok(PagedDocument(1, markup, virtual_files)), warnings |-> <<>>]}
    \cup {[output |-> Err(e), warnings |-> <<>>] : e \in ErrorLists}

InitCache ==
    /\ context_new
    /\ disk \in [CacheLocs -> CacheEntries]
    /\ NoParse /\ NoClock /\ NoThreads /\ NoDiagnostics

NextCache ==
    \/ \E m \in Markups : context_set_markup(m)
    \/ compile_begin
    \/ \E outcome \in CacheOutcomes : compile_end(outcome)
    \/ \E id \in CacheIds : world_source(id)
    \/ \E id \in CacheIds : world_file(id)
    \/ \E loc \in CacheLocs, entry \in CacheEntries : disk_write(loc, entry)
    \/ document_clear

SpecCache == InitCache /\ [][NextCache]_vars

----------------------------------------------------------------------------
(* SpecWorld: the lookups of the World provider over the main pseudo-file   *)
(* and a project file, with an overlay at either path whose text may start  *)
(* with a byte-order mark, and a file system that holds or lacks a file at  *)
(* each place. The lookups run inside the HTML compile.                     *)

WorldIds == {MARKUP_ID, FileId(None, "a.typ")}
WorldLocs == {<<None, "MARKUP.typ">>, <<None, "a.typ">>}
WorldEntries == {Missing, File(<<"x", "x">>)}
WorldContents == {<<"x">>, <<BOM, "x">>}
WorldChunks == {<<"x">>}

InitWorld ==
    /\ context_new
    /\ disk \in [WorldLocs -> WorldEntries]
    /\ NoParse /\ NoClock /\ NoThreads /\ NoDiagnostics

NextWorld ==
    \/ \E m \in Markups : context_set_markup(m)
    \/ \E path \in VPaths, content \in WorldContents :
          context_set_virtual_file(path, content)
    \/ \E path \in VPaths, chunk \in WorldChunks :
          context_append_virtual_file(path, chunk)
    \/ \E path \in VPaths : context_clear_virtual_file(path)
    \/ export_html_begin
    \/ \E outcome \in HtmlOutcomes : export_html_end(outcome)
    \/ \E id \in WorldIds : world_source(id)
    \/ \E id \in WorldIds : world_file(id)
    \/ document_clear

SpecWorld == InitWorld /\ [][NextWorld]_vars

----------------------------------------------------------------------------
(* Claims about the lookups of the World provider (SpecWorld) *)

\* a step in which the compiler looks identity id up, either way
LookupStep(id) == world_source(id) \/ world_file(id)
\* the step answered from the overlay: the slot map and its loads are untouched
NoCacheUse == obs'.via = "overlay" /\ ~obs'.loaded /\ slots' = slots /\ loads' = loads
\* the text of valid UTF-8 bytes: one leading byte-order mark removed
OverlayText(content) ==
    IF content # <<>> /\ content[1] = BOM THEN Tail(content) ELSE content

\* C4 as stated: for a non-main identity whose path has an overlay entry, both
\* lookups return the overlay's current content, and the lookup neither creates
\* nor accesses a cache entry nor loads, whatever the file system holds.
C4_OverlayShadows ==
    [][\A id \in WorldIds :
          (id # MARKUP_ID /\ id.vpath \in DOMAIN virtual_files /\ LookupStep(id)) =>
              /\ obs'.kind = "source" =>
                    obs'.value = Ok(Source(id, virtual_files[id.vpath]))
              /\ obs'.kind = "file" => obs'.value = Ok(virtual_files[id.vpath])
              /\ NoCacheUse]_vars

\* C4, amended: the raw-bytes lookup returns the overlay's current content, the
\* parsed-source lookup a source of that content without one leading byte-order
\* mark; neither creates nor accesses a cache entry nor loads.
C4_OverlayShadowsDecoded ==
    [][\A id \in WorldIds :
          (id # MARKUP_ID /\ id.vpath \in DOMAIN virtual_files /\ LookupStep(id)) =>
              /\ obs'.kind = "source" =>
                    obs'.value = Ok(Source(id, OverlayText(virtual_files[id.vpath])))
              /\ obs'.kind = "file" => obs'.value = Ok(virtual_files[id.vpath])
              /\ NoCacheUse]_vars

\* a source lookup answered from an overlay entry that starts with a byte-order
\* mark, while the file is on disk and a cache entry of an earlier compile
\* holds it
C4_Witness ==
    /\ pc = "html"
    /\ obs.kind = "source" /\ obs.via = "overlay" /\ obs.id = FileId(None, "a.typ")
    /\ "a.typ" \in DOMAIN virtual_files
    /\ virtual_files["a.typ"] = <<BOM, "x">>
    /\ obs.value = Ok(Source(obs.id, <<"x">>))
    /\ disk[<<None, "a.typ">>] = File(<<"x", "x">>)
    /\ obs.id \in DOMAIN slots
    /\ slots[obs.id].source.data # None /\ ~slots[obs.id].source.accessed

\* where the stated precedence answers a lookup of id from
Precedence(id) ==
    IF id = MARKUP_ID THEN "markup"
    ELSE IF id.vpath \in DOMAIN virtual_files THEN "overlay"
    ELSE "cache"

\* C5 as stated: the raw-bytes lookup resolves an identity with the precedence
\* of the parsed-source lookup: the main pseudo-file gives the in-memory markup
\* in both, whatever overlay entry or disk file its path has; any other
\* identity gives its overlay entry if there is one, else the FileCache.
C5_SamePrecedence ==
    [][\A id \in WorldIds :
          LookupStep(id) =>
              /\ obs'.via = Precedence(id)
              /\ (id = MARKUP_ID /\ obs'.kind = "source") =>
                    obs'.value = Ok(Source(id, markup))
              /\ (id = MARKUP_ID /\ obs'.kind = "file") => obs'.value = Ok(markup)]_vars

----------------------------------------------------------------------------
(* Claims about the FileCache (SpecCache) *)

\* the last lookup went to the cache cell <<obs.id, obs.kind>>
CacheLookup == obs.kind # "none" /\ obs.via = "cache"
\* that cell as it is now
ObservedCell == CellOf(slots, obs.id, obs.kind)

\* C6: in one generation a cell loads exactly once, on its first access, which
\* re-fingerprints; every later access returns the stored result without load
\* or transform, whatever the file system holds by then.
C6_OneLoadPerGeneration ==
    /\ \A cell \in DOMAIN loads : loads[cell] = 1
    /\ CacheLookup =>
          /\ obs.nth = 1 =>
                obs.loaded /\ ObservedCell.fingerprint = hash128(obs.load[1])
          /\ obs.nth = 2 =>
                /\ ~obs.loaded /\ ~obs.transformed
                /\ obs.before.data # None
                /\ obs.value = obs.before.data[1]
                /\ ObservedCell.data = obs.before.data
                /\ ObservedCell.fingerprint = obs.before.fingerprint

\* a later access of a generation answered from the cell although the file was
\* changed after the first access
C6_Witness ==
    /\ CacheLookup /\ obs.nth = 2
    /\ hash128(obs.load[1]) # obs.before.fingerprint
    /\ obs.value.ok

ResetStep == compile_begin \/ export_html_begin \/ \E m \in Markups : context_set_markup(m)
ResetKeepsCells ==
    /\ DOMAIN slots' = DOMAIN slots
    /\ \A id \in DOMAIN slots :
          /\ slots'[id].source.data = slots[id].source.data
          /\ slots'[id].source.fingerprint = slots[id].source.fingerprint
          /\ ~slots'[id].source.accessed
          /\ slots'[id].file.data = slots[id].file.data
          /\ slots'[id].file.fingerprint = slots[id].file.fingerprint
          /\ ~slots'[id].file.accessed
SameFingerprintReuses ==
    (CacheLookup /\ obs.nth = 1 /\ obs.before.data # None
        /\ hash128(obs.load[1]) = obs.before.fingerprint) =>
            /\ obs.loaded /\ ~obs.transformed
            /\ obs.value = obs.before.data[1]
            /\ ObservedCell.data = obs.before.data

\* C7: a reset keeps every entry with its stored result and fingerprint and only
\* clears the accessed flags; the first access of a generation whose load has
\* the stored fingerprint loads, does not run the transform and returns the
\* stored result.
C7_ResetKeepsAndReuses ==
    [][(ResetStep => ResetKeepsCells) /\ SameFingerprintReuses']_vars

\* a successfully parsed source is returned again, untransformed, by the first
\* access of a later generation that loaded the same bytes
C7_Witness ==
    /\ CacheLookup /\ obs.kind = "source" /\ obs.nth = 1
    /\ obs.before.data # None /\ obs.before.data[1].ok
    /\ hash128(obs.load[1]) = obs.before.fingerprint
    /\ obs.loaded /\ ~obs.transformed

\* C8: a failed result is stored in the cell like a success: later accesses of
\* the generation return it without a load, the first access of a later
\* generation returns it when the load has the same fingerprint, and it is
\* replaced only when the fingerprint of a load differs.
C8_FailuresAreCached ==
    /\ (CacheLookup /\ ~obs.value.ok) => ObservedCell.data = Some(obs.value)
    /\ (CacheLookup /\ obs.before.data # None /\ ~obs.before.data[1].ok) =>
          /\ obs.nth = 2 => ~obs.loaded /\ obs.value = obs.before.data[1]
          /\ (obs.nth = 1 /\ hash128(obs.load[1]) = obs.before.fingerprint) =>
                obs.loaded /\ ~obs.transformed /\ obs.value = obs.before.data[1]
          /\ ObservedCell.data # obs.before.data =>
                /\ obs.loaded
                /\ ObservedCell.fingerprint # obs.before.fingerprint

\* a decode error of bytes that loaded fine is returned again by the first
\* access of a later generation, without running the transform
C8_Witness ==
    /\ CacheLookup /\ obs.kind = "source" /\ obs.nth = 1
    /\ obs.before.data = Some(Err("InvalidUtf8"))
    /\ obs.load[1].ok
    /\ obs.loaded /\ ~obs.transformed /\ obs.value = Err("InvalidUtf8")

\* the previous value the transform is to get from a cell: its stored success
StoredSuccess(cell) ==
    IF cell.data # None /\ cell.data[1].ok THEN Some(cell.data[1].v) ELSE None

\* C18: when the first access of a generation loads bytes whose fingerprint
\* differs from the stored one (or the cell was never filled), the transform
\* runs on the new bytes, with the stored value if the stored result was a
\* success and with no previous value otherwise, and its result, success or
\* error, replaces the stored result.
C18_PreviousSuccessThreaded ==
    (CacheLookup /\ obs.nth = 1 /\ obs.load[1].ok
        /\ (hash128(obs.load[1]) # obs.before.fingerprint \/ obs.before.data = None)) =>
            /\ obs.loaded /\ obs.transformed
            /\ obs.prev = StoredSuccess(obs.before)
            /\ ObservedCell.data = Some(obs.value)
            /\ obs.kind = "file" => obs.value = Ok(obs.load[1].v)
            /\ obs.kind = "source" =>
                  IF BadByte \in {obs.load[1].v[i] : i \in 1..Len(obs.load[1].v)}
                  THEN obs.value = Err("InvalidUtf8")
                  ELSE obs.value.ok /\ obs.value.v.text = OverlayText(obs.load[1].v)

\* new bytes parsed with no previous value, the stored result being an error
C18_Witness ==
    /\ CacheLookup /\ obs.kind = "source" /\ obs.nth = 1
    /\ obs.before.data # None /\ ~obs.before.data[1].ok
    /\ obs.transformed /\ obs.prev = None
    /\ obs.value.ok /\ obs.value.v.text = <<"x">>

\* the uncached computation on a load result: the load error, or the bytes
\* themselves for a raw-bytes cell, or for a source cell the source of the
\* decoded text, or the decode error
Uncached(kind, id, load) ==
    IF ~load.ok THEN load
    ELSE IF kind = "file" THEN Ok(load.v)
    ELSE IF BadByte \in {load.v[i] : i \in 1..Len(load.v)} THEN Err("InvalidUtf8")
    ELSE Ok([id |-> id, text |-> OverlayText(load.v)])

\* C21: the first access of a generation returns what the uncached computation
\* gives on the content loaded at that access, whatever resets, accesses and
\* file changes came before; a cell never filled loads and, having bytes, runs
\* the transform on its first access, whatever their fingerprint is.
C21_FirstAccessMatchesUncached ==
    (CacheLookup /\ obs.nth = 1) =>
        /\ obs.loaded
        /\ obs.value = Uncached(obs.kind, obs.id, obs.load[1])
        /\ obs.before.data = None => (obs.transformed <=> obs.load[1].ok)

\* a cell never filled, as SlotCell::new made it, loaded the empty file, took
\* its fingerprint and ran the transform
C21_Witness ==
    /\ CacheLookup /\ obs.kind = "source" /\ obs.nth = 1
    /\ obs.before = SlotCell_new
    /\ obs.load[1] = Ok(<<>>)
    /\ ObservedCell.fingerprint = hash128(obs.load[1])
    /\ ObservedCell.fingerprint # obs.before.fingerprint
    /\ obs.transformed /\ obs.value = Ok(Source(obs.id, <<>>))

----------------------------------------------------------------------------
(* SpecOverlay: the overlay handlers over two paths, between compiles that  *)
(* store or clear the document.                                             *)

OverlayContents == {<<>>, <<"x">>}
OverlayChunks == {<<"x">>}
OverlayOutcomes ==
    {[output |-> Ok(PagedDocument(1, markup, virtual_files)), warnings |-> <<>>]}
    \cup {[output |-> Err(e), warnings |-> <<>>] : e \in ErrorLists}

InitOverlay ==
    /\ context_new
    /\ disk = NoDisk
    /\ NoParse /\ NoClock /\ NoThreads /\ NoDiagnostics

NextOverlay ==
    \/ \E path \in VPaths, content \in OverlayContents :
          context_set_virtual_file(path, content)
    \/ \E path \in VPaths, chunk \in OverlayChunks :
          context_append_virtual_file(path, chunk)
    \/ \E path \in VPaths : context_clear_virtual_file(path)
    \/ compile_begin
    \/ \E outcome \in OverlayOutcomes : compile_end(outcome)
    \/ document_clear

SpecOverlay == InitOverlay /\ [][NextOverlay]_vars

\* every overlay entry but the one at path is as it was
OtherEntriesKept(path) ==
    \A q \in VPaths \ {path} :
        /\ (q \in DOMAIN virtual_files') = (q \in DOMAIN virtual_files)
        /\ q \in DOMAIN virtual_files => virtual_files'[q] = virtual_files[q]
\* the content at path, empty when there is no entry
ContentAt(path) == IF path \in DOMAIN virtual_files THEN virtual_files[path] ELSE <<>>

\* C14: append_virtual_file(path, chunk) makes the content at path the previous
\* content (empty when there was no entry) followed by chunk, and leaves every
\* other entry, the markup, the cache and the stored document as they were;
\* set_virtual_file replaces the content at path; clear_virtual_file removes
\* the entry.
C14_AppendExtendsAndKeeps ==
    [][\A path \in VPaths :
          /\ \A chunk \in OverlayChunks :
                context_append_virtual_file(path, chunk) =>
                    /\ path \in DOMAIN virtual_files'
                    /\ virtual_files'[path] = ContentAt(path) \o chunk
                    /\ OtherEntriesKept(path)
                    /\ UNCHANGED <<markup, slots, now, document>>
          /\ \A content \in OverlayContents :
                context_set_virtual_file(path, content) =>
                    /\ path \in DOMAIN virtual_files'
                    /\ virtual_files'[path] = content
                    /\ OtherEntriesKept(path)
          /\ context_clear_virtual_file(path) =>
                /\ path \notin DOMAIN virtual_files'
                /\ OtherEntriesKept(path)]_vars

\* an append onto existing content, with an entry at the other path, that left
\* the compiled document stored
C14_Witness ==
    /\ ret.op = "append_virtual_file"
    /\ document # None
    /\ DOMAIN virtual_files = VPaths
    /\ virtual_files["a.typ"] = <<"x", "x">>
    /\ document[1].from.virtual_files # virtual_files

----------------------------------------------------------------------------
(* SpecInputs: the input bindings over two keys, between compiles that read *)
(* a file through the cache.                                                *)

BindingKeys == {"k", "j"}
BindingMaps == UNION {[ks -> InputValues] : ks \in SUBSET BindingKeys}

InitInputs ==
    /\ context_new
    /\ disk = [loc \in CacheLocs |-> File(<<"x">>)]
    /\ NoParse /\ NoClock /\ NoThreads /\ NoDiagnostics

NextInputs ==
    \/ \E key \in BindingKeys, value \in InputValues : context_set_input(key, value)
    \/ \E map \in BindingMaps : context_set_inputs(map)
    \/ compile_begin
    \/ \E id \in CacheIds : world_source(id)
    \/ \E outcome \in CacheOutcomes : compile_end(outcome)

SpecInputs == InitInputs /\ [][NextInputs]_vars

\* C15: set_input and set_inputs change neither the stored document, the
\* markup, the overlay nor the cache generation; set_input(k, v) adds or
\* overwrites the one key k, set_inputs(m) makes m the whole binding set, and
\* the input dictionary of the library is the binding set after each of them.
C15_InputsRebuildLibrary ==
    [][/\ \A key \in BindingKeys, value \in InputValues :
             context_set_input(key, value) =>
                 /\ DOMAIN inputs' = (DOMAIN inputs) \cup {key}
                 /\ inputs'[key] = value
                 /\ \A k \in (DOMAIN inputs) \ {key} : inputs'[k] = inputs[k]
                 /\ library'.inputs = inputs'
                 /\ UNCHANGED <<document, markup, virtual_files, slots, now>>
       /\ \A map \in BindingMaps :
             context_set_inputs(map) =>
                 /\ inputs' = map
                 /\ library'.inputs = inputs'
                 /\ UNCHANGED <<document, markup, virtual_files, slots, now>>]_vars

\* set_input overwrote one of two bindings while a document is stored and a
\* cache cell is marked accessed
C15_Witness ==
    /\ ret.op = "set_input"
    /\ document # None
    /\ DOMAIN inputs = BindingKeys
    /\ inputs["k"] # inputs["j"]
    /\ library.inputs = inputs
    /\ \E id \in DOMAIN slots : slots[id].source.accessed

----------------------------------------------------------------------------
(* SpecClock: the "today" queries of compiles while the clock advances.     *)

Offsets == {None, Some(0), Some(23), Some(-23), Some(24), Some(-24), Some(600000)}

InitClock ==
    /\ context_new
    /\ disk = NoDisk
    /\ NoParse /\ NoClock /\ NoThreads /\ NoDiagnostics

NextClock ==
    \/ \E m \in Markups : context_set_markup(m)
    \/ compile_begin
    \/ \E outcome \in CacheOutcomes : compile_end(outcome)
    \/ export_html_begin
    \/ \E outcome \in HtmlOutcomes : export_html_end(outcome)
    \/ \E offset \in Offsets : world_today(offset)
    \/ tick
    \/ document_clear

SpecClock == InitClock /\ [][NextClock]_vars

\* C17: between two resets the snapshot is taken once, by the first query, from
\* the clock as it is then, and every query, whatever its offset, is answered
\* from that snapshot; a reset (at the start of a compile and in set_markup)
\* discards the snapshot.
C17_OneSnapshotPerCompile ==
    [][/\ (now # None /\ now' # None) => now' = now
       /\ ResetStep => now' = None
       /\ \A offset \in Offsets :
             world_today(offset) =>
                 /\ now = None => now' = Some(clock)
                 /\ today_ret'[1].value = datetime_today(now'[1], offset)]_vars

\* a later query of a compile answered from the snapshot although the clock has
\* moved on to another date since
C17_Witness ==
    /\ pc = "compile"
    /\ today_ret # None /\ ~today_ret[1].first
    /\ now # None /\ now[1] < clock
    /\ today_ret[1].value = datetime_today(now[1], today_ret[1].offset)
    /\ today_ret[1].value # datetime_today(clock, today_ret[1].offset)

----------------------------------------------------------------------------
(* SpecDiag: diagnostics_to_vec and diagnostics_to_vec_simple applied to    *)
(* the compiler's diagnostics while the handler holds the world guard, over *)
(* spans in the main markup, in an overlay or cached file, in a file that   *)
(* cannot be read, and spans without file or range.                         *)

DiagTexts == {<<"x">>, <<"x", "\n", "x">>}
DiagFile == FileId(None, "a.typ")
DiagDisks == {[loc \in {<<None, "a.typ">>} |-> entry] : entry \in {Missing, File(<<"x", "x">>)}}
DiagSpans ==
    {Detached, Span(Some(MARKUP_ID), None),
     Span(Some(MARKUP_ID), Some(<<0, 1>>)), Span(Some(MARKUP_ID), Some(<<2, 3>>)),
     Span(Some(DiagFile), Some(<<1, 2>>))}
Traced(d, spans) ==
    [d EXCEPT !.trace = [j \in 1..Len(spans) |-> [span |-> spans[j], message |-> <<"call", j>>]],
              !.hints = <<"hint a", "hint b">>]
DiagSet ==
    {SourceDiagnostic("error", "unknown variable", sp) : sp \in DiagSpans}
    \cup {Traced(SourceDiagnostic("warning", "unused", Detached),
                 <<Span(Some(DiagFile), Some(<<1, 2>>)), Span(Some(MARKUP_ID), Some(<<2, 3>>))>>)}
DiagLists == {<<>>} \cup {<<d>> : d \in DiagSet} \cup {<<d, e>> : d, e \in DiagSet}

\* every byte range of a span lies in the text of its file, as the compiler
\* took it from there
SpansInText(diagnostics, world) ==
    \A i \in 1..Len(diagnostics) :
        \A sp \in {diagnostics[i].span}
                  \cup {diagnostics[i].trace[j].span : j \in 1..Len(diagnostics[i].trace)} :
            (sp.range # None /\ sp.id # None) =>
                LET source == World_source(sp.id[1], world.markup, world.virtual_files,
                                           world.slots, world.disk).value
                IN  source.ok => sp.range[1][2] <= Len(source.v.text)

\* the handler maps the diagnostics the compiler returned: diagnostics_to_vec
\* (566-574) with the world, diagnostics_to_vec_simple (576-594) without
diagnostics_call ==
    /\ pc = "compile"
    /\ SpansInText(diags, SystemWorld)
    /\ diag_result' = Some([full |-> diagnostics_to_vec(diags, SystemWorld),
                            simple |-> diagnostics_to_vec_simple(diags)])
    /\ slots' = resolved_slots(resolved_ids(diags), SystemWorld)
    /\ UNCHANGED <<markup, virtual_files, inputs, library, document, pc, ret,
                   last_compile, mutated, disk, obs, loads, now>>
    /\ UNCHANGED <<diags, parse_vars, clock_vars, thread_vars, result>>

\* a context inside context_compile, the compiler running: its markup and
\* overlay as the host set them, no file read yet
InitDiag ==
    /\ markup \in DiagTexts
    /\ virtual_files \in {EmptyMap} \cup {MapInsert(EmptyMap, "a.typ", content) :
                                             content \in DiagTexts}
    /\ inputs = EmptyMap
    /\ library = [inputs |-> EmptyMap]
    /\ slots = EmptyMap
    /\ document = None
    /\ pc = "compile"
    /\ ret = Returned("set_markup", "ok")
    /\ last_compile = None
    /\ mutated = TRUE
    /\ obs = NoObs
    /\ loads = EmptyMap
    /\ now = None
    /\ disk \in DiagDisks
    /\ diags \in DiagLists /\ diag_result = None /\ result = None
    /\ NoParse /\ NoClock /\ NoThreads

NextDiag ==
    \/ world_source(DiagFile)
    \/ \E entry \in {Missing, File(<<"x", "x">>)} : disk_write(<<None, "a.typ">>, entry)
    \/ diagnostics_call

SpecDiag == InitDiag /\ [][NextDiag]_vars

\* the 1-based line and column of offset in text
LineOf(text, offset) == 1 + Cardinality({i \in 1..offset : text[i] = "\n"})
ColumnOf(text, offset) ==
    1 + Cardinality({i \in 1..offset : \A j \in i..offset : text[j] # "\n"})

\* nif is the mapping of span that resolves positions through the World
SpanMapped(span, nif) ==
    IF span.range = None THEN nif = None
    ELSE /\ nif # None
         /\ nif[1].start = span.range[1][1] /\ nif[1].end = span.range[1][2]
         /\ LET source == IF span.id = None THEN Err("detached")
                          ELSE World_source(span.id[1], markup, virtual_files,
                                            slots, disk).value
            IN  IF source.ok
                THEN /\ nif[1].line = Some(LineOf(source.v.text, span.range[1][1]))
                     /\ nif[1].column = Some(ColumnOf(source.v.text, span.range[1][1]))
                     /\ nif[1].line[1] >= 1 /\ nif[1].column[1] >= 1
                ELSE nif[1].line = None /\ nif[1].column = None

\* nif is the position-less mapping of span
SpanMappedSimple(span, nif) ==
    IF span.range = None THEN nif = None
    ELSE /\ nif # None
         /\ nif[1].start = span.range[1][1] /\ nif[1].end = span.range[1][2]
         /\ nif[1].line = None /\ nif[1].column = None

\* out keeps the number and order of the diagnostics, trace items and hints
SameShape(out) ==
    /\ Len(out) = Len(diags)
    /\ \A i \in 1..Len(diags) :
          /\ out[i].severity = diags[i].severity
          /\ out[i].message = diags[i].message
          /\ out[i].hints = diags[i].hints
          /\ Len(out[i].trace) = Len(diags[i].trace)
          /\ \A j \in 1..Len(diags[i].trace) :
                out[i].trace[j].message = diags[i].trace[j].message

\* C19: the mapping keeps the number and order of diagnostics, trace items and
\* hints; a span without byte range maps to no span; a span with a byte range
\* whose file cannot be resolved keeps the range with no line and column; a
\* resolvable span gets the 1-based line and column of the range start; the
\* position-less variant keeps the ranges and never gives a line or column.
C19_SpansMapped ==
    [][diagnostics_call =>
          LET full == diag_result'[1].full
              simple == diag_result'[1].simple
          IN  /\ SameShape(full) /\ SameShape(simple)
              /\ \A i \in 1..Len(diags) :
                    /\ SpanMapped(diags[i].span, full[i].span)
                    /\ SpanMappedSimple(diags[i].span, simple[i].span)
                    /\ \A j \in 1..Len(diags[i].trace) :
                          /\ SpanMapped(diags[i].trace[j].span, full[i].trace[j].span)
                          /\ SpanMappedSimple(diags[i].trace[j].span,
                                              simple[i].trace[j].span)]_vars

\* two diagnostics mapped: one on the first column of the second line of the
\* markup, one in a file that could not be read, which keeps its byte range
C19_Witness ==
    /\ diag_result # None
    /\ Len(diag_result[1].full) = 2
    /\ diag_result[1].full[1].span # None
    /\ diag_result[1].full[1].span[1].line = Some(2)
    /\ diag_result[1].full[1].span[1].column = Some(1)
    /\ diag_result[1].full[2].span # None
    /\ diag_result[1].full[2].span[1].start = 1
    /\ diag_result[1].full[2].span[1].line = None
    /\ diag_result[1].simple[1].span[1].line = None

----------------------------------------------------------------------------
(* SpecIdem: whole compiles by a compiler that is a function of what the    *)
(* World gives it. A non-empty markup includes the file a.typ and asks for  *)
(* today's date 23 hours east; the pages follow the length of the included  *)
(* text, an unreadable file is an error and an odd day a warning.           *)

IncludedFile == FileId(None, "a.typ")
TodayOffset == Some(23)

\* typst::compile::<PagedDocument>(&world) (671), given the main text, the
\* answer to the include (None when the markup includes nothing) and the date
typst_compile(main, included, today) ==
    IF included = None
    THEN [output |-> Ok(PagedDocument(1, markup, virtual_files)), warnings |-> <<>>]
    ELSE IF ~included[1].ok
    THEN [output |-> Err(<<SourceDiagnostic("error", included[1].e, Detached)>>),
          warnings |-> <<>>]
    ELSE [output |-> Ok(PagedDocument(1 + Len(included[1].v.text), markup, virtual_files)),
          warnings |-> IF today # None /\ today[1].day % 2 = 1
                       THEN <<SourceDiagnostic("warning", "odd day", Detached)>>
                       ELSE <<>>]

\* typst::compile (671) as one call: the compiler reads the main source and,
\* if it has text, the included file and the date; what it returns is kept in
\* `result` with the file system and the clock it ran against
compile_run ==
    /\ pc = "compile" /\ result = None
    /\ LET main == World_source(MARKUP_ID, markup, virtual_files, slots, disk)
           includes == main.value.v.text # <<>>
           included == World_source(IncludedFile, markup, virtual_files, slots, disk)
           snapshot == get_or_init_now(now, clock)
           today == datetime_today(snapshot, TodayOffset)
           outcome == typst_compile(main.value.v.text,
                                    IF includes THEN Some(included.value) ELSE None,
                                    today)
       IN  /\ slots' = IF includes THEN included.slots ELSE slots
           /\ now' = IF includes THEN Some(snapshot) ELSE now
           /\ today_ret' = IF includes
                           THEN Some([offset |-> TodayOffset, first |-> now = None,
                                      value |-> today])
                           ELSE today_ret
           /\ obs' = IF includes
                     THEN [kind |-> "source", id |-> IncludedFile,
                           value |-> included.value, via |-> included.via,
                           loaded |-> included.loaded, transformed |-> included.transformed,
                           prev |-> included.prev, nth |-> 1,
                           before |-> CellOf(slots, IncludedFile, "source"),
                           load |-> Some(read(IncludedFile, disk))]
                     ELSE NoObs
           /\ loads' = IF includes /\ included.via = "cache"
                       THEN MapInsert(EmptyMap, <<IncludedFile, "source">>, 1)
                       ELSE EmptyMap
           /\ result' = Some([outcome |-> outcome, disk |-> disk, clock |-> clock])
    /\ UNCHANGED <<markup, virtual_files, inputs, library, document, pc, ret,
                   last_compile, mutated, disk, clock>>
    /\ UNCHANGED <<parse_vars, thread_vars, diag_vars>>

\* context_compile (672-688): the diagnostics are mapped, the document guard is
\* taken, the document stored or cleared, and the handler returns
compile_finish ==
    /\ pc = "compile" /\ result # None
    /\ pc' = "idle"
    /\ LET outcome == result[1].outcome
       IN  /\ document' = compile_store(outcome.output)
           /\ ret' = Returned("compile", compile_return(outcome))
           /\ last_compile' = Some([ok |-> outcome.output.ok, markup |-> markup,
                                    virtual_files |-> virtual_files,
                                    disk |-> result[1].disk, clock |-> result[1].clock,
                                    slots |-> slots])
    /\ result' = None
    /\ mutated' = FALSE
    /\ UNCHANGED <<markup, virtual_files, inputs, library, slots, disk, obs, loads, now>>
    /\ UNCHANGED <<parse_vars, clock_vars, thread_vars, diag_vars>>

IdemEntries == {File(<<"x">>), File(<<"x", "x">>), Missing}

InitIdem ==
    /\ context_new
    /\ disk \in [{<<None, "a.typ">>} -> IdemEntries]
    /\ NoParse /\ NoClock /\ NoThreads /\ NoDiagnostics

NextIdem ==
    \/ \E m \in Markups : context_set_markup(m)
    \/ context_append_virtual_file("a.typ", <<"x">>)
    \/ context_clear_virtual_file("a.typ")
    \/ \E entry \in IdemEntries : disk_write(<<None, "a.typ">>, entry)
    \/ tick
    \/ compile_begin
    \/ compile_run
    \/ compile_finish
    \/ document_clear

SpecIdem == InitIdem /\ [][NextIdem]_vars

\* the compile that returns now follows a finished compile with no handler
\* returning in between
SecondCompile == compile_finish /\ ret.op = "compile"
\* the compile returns what the last one returned and leaves the session as the
\* last one left it
SameOutcome ==
    /\ ret' = ret
    /\ document' = document
    /\ markup = last_compile[1].markup
    /\ virtual_files = last_compile[1].virtual_files
    /\ slots = last_compile[1].slots
    /\ UNCHANGED <<inputs, library>>

\* C16 as stated: compiling twice in a row with no mutation of markup, overlay
\* or inputs in between gives the same outcome both times (success or failure,
\* page count, diagnostics in order) and the same session state afterwards.
C16_CompileIdempotent == [][SecondCompile => SameOutcome]_vars

\* C16, amended: the same, provided the files the compile reads and the
\* calendar date of the clock have not changed in between either.
C16_CompileIdempotentSameFiles ==
    [][(/\ SecondCompile
        /\ result[1].disk = last_compile[1].disk
        /\ datetime_today(result[1].clock, TodayOffset)
              = datetime_today(last_compile[1].clock, TodayOffset))
          => SameOutcome]_vars

\* a second compile in a row, later on the same day, that loaded the included
\* file again, found its fingerprint unchanged and returned the same two pages
C16_Witness ==
    /\ ret.op = "compile" /\ ret.val.ok /\ ret.val.v.page_count = 2
    /\ obs.kind = "source" /\ obs.via = "cache"
    /\ obs.loaded /\ ~obs.transformed
    /\ last_compile[1].clock = 2 /\ clock = 2
    /\ document # None /\ document[1].pages = 2

----------------------------------------------------------------------------
(* The guards of a context: TypstContext keeps its world and its stored     *)
(* document behind two mutexes, and SystemWorld keeps its slot map behind a *)
(* third. Host threads call the handlers of one context with their          *)
(* arguments; a thread is at one place of its handler, and the places are   *)
(* the lock() calls and the sections they guard. A section does the         *)
(* handler's writes: the world under the world guard, the slot map under    *)
(* the map lock, the document slot under the document guard. The history of *)
(* the lookups (obs, loads) and the values returned (ret) are those of the  *)
(* sequential specifications and stay as they are here.                     *)

Threads == {1, 2}

ThreadOps ==
    {"set_markup", "compile", "render_svg", "export_pdf", "font_families",
     "set_virtual_file", "append_virtual_file", "clear_virtual_file",
     "set_input", "set_inputs", "export_html"}

\* the arguments the host threads pass
ThreadPaths == {"a.typ"}
ThreadChunks == {<<"x">>}
ThreadInputMaps == {EmptyMap}

\* the arguments of a handler, by name (after the context)
NoArgs == [ctx |-> "ctx"]
ThreadArgs(op) ==
    CASE op = "set_markup" -> {[markup |-> m] : m \in Markups}
      [] op = "set_virtual_file" ->
            {[path |-> p, content |-> c] : p \in ThreadPaths, c \in ThreadChunks}
      [] op = "append_virtual_file" ->
            {[path |-> p, chunk |-> c] : p \in ThreadPaths, c \in ThreadChunks}
      [] op = "clear_virtual_file" -> {[path |-> p] : p \in ThreadPaths}
      [] op = "set_input" -> {[key |-> k, value |-> "v"] : k \in InputKeys}
      [] op = "set_inputs" -> {[inputs |-> m] : m \in ThreadInputMaps}
      [] OTHER -> {NoArgs}

\* the calls a host thread can make
ThreadCalls ==
    UNION {{[op |-> op, arg |-> a] : a \in ThreadArgs(op)} : op \in ThreadOps}

\* a thread outside any handler; job is the one call its host process makes
\* again and again, or None for a host that makes any call
\* look is the kind of lookup the compiler has asked for, was is what
\* mem::replace(&mut self.accessed, true) returned in it (430)
Resting ==
    [op |-> "none", arg |-> NoArgs, at |-> "idle", look |-> None, was |-> None,
     out |-> None, job |-> None]

\* the handlers that run typst::compile under the world guard
runs_compiler(op) == op \in {"compile", "export_html"}

\* the handlers that assign the document slot, and those that only read it
writes_document(op) ==
    op \in {"set_markup", "compile", "set_virtual_file", "clear_virtual_file"}

reads_document(op) == op \in {"render_svg", "export_pdf"}

\* the same handlers, with the mutating ones locking the document before the
\* world
guard_order_document_first(op) ==
    IF reads_document(op) THEN <<"document">>
    ELSE IF op = "compile" THEN <<"world", "document">>
    ELSE IF writes_document(op) THEN <<"document", "world">>
    ELSE <<"world">>

\* the guards a handler locks, in the order of its lock() calls
guard_order(op) ==
    IF reads_document(op) THEN <<"document">>
    ELSE IF writes_document(op) THEN <<"world", "document">>
    ELSE <<"world">>

\* the place a thread goes to after the section guarded by g: the next lock()
\* call of its handler, or its return
after_section(op, g) ==
    LET order == guard_order(op)
        i == CHOOSE k \in 1..Len(order) : order[k] = g
    IN  IF i < Len(order) THEN order[i + 1] \o "?" ELSE "return"

\* what no thread writes, and the world, which the world-guarded sections write
guards_frame ==
    UNCHANGED <<pc, ret, last_compile, mutated, disk, obs, loads,
                parse_vars, clock_vars, diag_vars, result>>

world_frame == UNCHANGED <<markup, virtual_files, inputs, library, slots, now>>

\* a host thread calls a handler, which goes to its first lock() call
nif_call(t, op, arg) ==
    /\ threads[t].at = "idle"
    /\ threads[t].job \in {None, Some([op |-> op, arg |-> arg])}
    /\ op = "append_virtual_file" =>
          Len(append_bytes(virtual_files, arg.path, arg.chunk)[arg.path]) <= MaxLen
    /\ threads' = [threads EXCEPT ![t] =
                      [op |-> op, arg |-> arg, at |-> guard_order(op)[1] \o "?",
                       look |-> None, was |-> None, out |-> None,
                       job |-> threads[t].job]]
    /\ UNCHANGED <<world_guard, document_guard, slots_lock, document>>
    /\ world_frame
    /\ guards_frame

\* ctx.world.lock() returns; compile and export_html go on with world.reset()
\* and enter typst::compile
lock_world(t) ==
    LET op == threads[t].op
    IN  /\ threads[t].at = "world?"
        /\ world_guard = None
        /\ world_guard' = Some(t)
        /\ threads' = [threads EXCEPT ![t].at =
                          IF runs_compiler(op) THEN "compiler" ELSE "world"]
        /\ slots' = IF runs_compiler(op) THEN SystemWorld_reset(slots) ELSE slots
        /\ now' = IF runs_compiler(op) THEN None ELSE now
        /\ UNCHANGED <<markup, virtual_files, inputs, library>>
        /\ UNCHANGED <<document_guard, slots_lock, document>>
        /\ guards_frame

\* the statements of a handler between its world lock and its document lock
\* (or its end): the handler's write to the world
world_section(t) ==
    LET op == threads[t].op
        arg == threads[t].arg
    IN  /\ threads[t].at = "world"
        /\ markup' = IF op = "set_markup" THEN arg.markup ELSE markup
        /\ slots' = IF op = "set_markup" THEN SystemWorld_reset(slots) ELSE slots
        /\ now' = IF op = "set_markup" THEN None ELSE now
        /\ virtual_files' =
              CASE op = "set_virtual_file" ->
                      MapInsert(virtual_files, arg.path, arg.content)
                [] op = "append_virtual_file" ->
                      append_bytes(virtual_files, arg.path, arg.chunk)
                [] op = "clear_virtual_file" -> MapRemove(virtual_files, arg.path)
                [] OTHER -> virtual_files
        /\ inputs' =
              CASE op = "set_input" -> MapInsert(inputs, arg.key, arg.value)
                [] op = "set_inputs" -> arg.inputs
                [] OTHER -> inputs
        /\ library' = IF op \in {"set_input", "set_inputs"}
                      THEN rebuild_library(inputs') ELSE library
        /\ threads' = [threads EXCEPT ![t].at = after_section(op, "world")]
        /\ UNCHANGED <<world_guard, document_guard, slots_lock, document>>
        /\ guards_frame

\* the compiler, or the diagnostic mapper after it, asks the world for a file
\* that the overlay does not hold: World::source or World::file calls
\* SystemWorld::slot, which goes to self.slots.lock()
slot_call(t, kind) ==
    /\ threads[t].at = "compiler"
    /\ IncludedFile.vpath \notin DOMAIN virtual_files
    /\ threads' = [threads EXCEPT ![t].at = "slots?", ![t].look = Some(kind)]
    /\ UNCHANGED <<world_guard, document_guard, slots_lock, document>>
    /\ world_frame
    /\ guards_frame

\* a slot with the cell that a lookup of `kind` uses replaced (FileSlot::source
\* 373-396 uses self.source, FileSlot::file 398-403 self.file)
with_cell(slot, kind, cell) ==
    IF kind = "source" THEN [slot EXCEPT !.source = cell]
    ELSE [slot EXCEPT !.file = cell]

\* self.slots.lock() returns; the entry is located or created and the closure
\* f starts on it: get_or_init marks the cell accessed (430) and, unless it
\* was accessed already and holds a result, goes into the load (436)
lock_slots(t) ==
    LET kind == threads[t].look[1]
        slot == slot_entry(slots, IncludedFile)
        cell == CellOf(slots, IncludedFile, kind)
    IN  /\ threads[t].at = "slots?"
        /\ slots_lock = None
        /\ slots_lock' = Some(t)
        /\ slots' = MapInsert(slots, IncludedFile,
                        with_cell(slot, kind, [cell EXCEPT !.accessed = TRUE]))
        /\ threads' = [threads EXCEPT
              ![t].at = IF cell.accessed /\ cell.data # None THEN "stored" ELSE "load",
              ![t].was = Some(cell.accessed)]
        /\ UNCHANGED <<markup, virtual_files, inputs, library, now>>
        /\ UNCHANGED <<world_guard, document_guard, document>>
        /\ guards_frame

\* the rest of get_or_init (431-449) on the cell that was found at 430: the
\* stored result is returned, or the load is hashed and the cell filled; then
\* the closure returns and SystemWorld::slot drops the map guard
slot_return(t) ==
    LET kind == threads[t].look[1]
        slot == slots[IncludedFile]
        found == [CellOf(slots, IncludedFile, kind) EXCEPT !.accessed = threads[t].was[1]]
        at430 == MapInsert(slots, IncludedFile, with_cell(slot, kind, found))
        r == IF kind = "source"
             THEN World_source(IncludedFile, markup, virtual_files, at430, disk)
             ELSE World_file(IncludedFile, markup, virtual_files, at430, disk)
    IN  /\ threads[t].at \in {"load", "stored"}
        /\ slots' = r.slots
        /\ slots_lock' = None
        /\ threads' = [threads EXCEPT
              ![t].at = "compiler", ![t].look = None, ![t].was = None]
        /\ UNCHANGED <<markup, virtual_files, inputs, library, now>>
        /\ UNCHANGED <<world_guard, document_guard, document>>
        /\ guards_frame

\* typst::compile has returned and its diagnostics are mapped; a paged compile
\* goes on to the document lock with what it will store
compiler_return(t, ok) ==
    /\ threads[t].at = "compiler"
    /\ threads' = [threads EXCEPT
          ![t].at = after_section(threads[t].op, "world"),
          ![t].out = IF ok /\ threads[t].op = "compile"
                     THEN Some(PagedDocument(1, markup, virtual_files))
                     ELSE None]
    /\ UNCHANGED <<world_guard, document_guard, slots_lock, document>>
    /\ world_frame
    /\ guards_frame

\* ctx.document.lock() returns
lock_document(t) ==
    /\ threads[t].at = "document?"
    /\ document_guard = None
    /\ document_guard' = Some(t)
    /\ threads' = [threads EXCEPT ![t].at = "document"]
    /\ UNCHANGED <<world_guard, slots_lock, document>>
    /\ world_frame
    /\ guards_frame

\* the section under the document guard: the mutating handlers and compile
\* assign the slot and drop the guard with the statement, render and export
\* read the stored document and keep the guard to their end
document_section(t) ==
    LET op == threads[t].op
        then == after_section(op, "document")
    IN  /\ threads[t].at = "document"
        /\ document' = IF writes_document(op) THEN threads[t].out ELSE document
        /\ document_guard' = IF then = "return" THEN None ELSE document_guard
        /\ threads' = [threads EXCEPT ![t].at = then]
        /\ UNCHANGED <<world_guard, slots_lock>>
        /\ world_frame
        /\ guards_frame

\* the handler returns: the guards it still holds are dropped
handler_return(t) ==
    /\ threads[t].at = "return"
    /\ world_guard' = IF world_guard = Some(t) THEN None ELSE world_guard
    /\ document_guard' = IF document_guard = Some(t) THEN None ELSE document_guard
    /\ threads' = [threads EXCEPT ![t] = [Resting EXCEPT !.job = threads[t].job]]
    /\ UNCHANGED <<slots_lock, document>>
    /\ world_frame
    /\ guards_frame

\* the project holds the file the compiler includes
ThreadDisk == [loc \in CacheLocs |-> File(<<"x">>)]

InitThreads ==
    /\ context_new
    /\ disk = ThreadDisk
    /\ threads = [t \in Threads |-> Resting]
    /\ world_guard = None /\ document_guard = None /\ slots_lock = None
    /\ NoParse /\ NoClock /\ NoDiagnostics

NextThreads ==
    \/ \E t \in Threads, op \in ThreadOps : \E arg \in ThreadArgs(op) :
          nif_call(t, op, arg)
    \/ \E t \in Threads : lock_world(t)
    \/ \E t \in Threads : world_section(t)
    \/ \E t \in Threads, kind \in {"source", "file"} : slot_call(t, kind)
    \/ \E t \in Threads : lock_slots(t)
    \/ \E t \in Threads : slot_return(t)
    \/ \E t \in Threads, ok \in BOOLEAN : compiler_return(t, ok)
    \/ \E t \in Threads : lock_document(t)
    \/ \E t \in Threads : document_section(t)
    \/ \E t \in Threads : handler_return(t)

SpecThreads == InitThreads /\ [][NextThreads]_vars

\* SpecProgress: each host thread makes one call again and again, under fair
\* scheduling
InitProgress ==
    /\ context_new
    /\ disk = ThreadDisk
    /\ threads \in [Threads -> {[Resting EXCEPT !.job = Some(c)] : c \in ThreadCalls}]
    /\ world_guard = None /\ document_guard = None /\ slots_lock = None
    /\ NoParse /\ NoClock /\ NoDiagnostics

\* a step of thread t inside a handler, other than the compiler's
thread_step(t) ==
    \/ lock_world(t) \/ world_section(t) \/ lock_slots(t) \/ slot_return(t)
    \/ lock_document(t) \/ document_section(t) \/ handler_return(t)

\* a thread inside a handler goes on; a thread waiting for a mutex gets it
\* if it is free again and again (the mutexes hand over to waiters); the
\* compiler returns after finitely many lookups. The host need not call. A
\* thread is at one place, so one condition covers the steps of its places.
FairThread(t) ==
    /\ SF_vars(thread_step(t))
    /\ SF_vars(\E ok \in BOOLEAN : compiler_return(t, ok))

SpecProgress ==
    InitProgress /\ [][NextThreads]_vars /\ \A t \in Threads : FairThread(t)

\* a thread is inside a guarded section of the context: it holds the world
\* guard or the document guard
InGuarded(t) == world_guard = Some(t) \/ document_guard = Some(t)

\* C11: two operations of one context are never inside their guarded sections
\* at once (one guard covers the world and the document).
C11_OneGuardSerializes ==
    \A t \in Threads, u \in Threads : (InGuarded(t) /\ InGuarded(u)) => t = u

\* C12: the lock over the slot map is not held while a load or a transform is
\* in progress.
C12_MapLockReleasedBeforeLoad ==
    \A t \in Threads : threads[t].at = "load" => slots_lock = None

\* the order of the guards: the document guard of a handler that also takes
\* the world guard is taken under it, render and export never hold the world
\* guard, and the map lock is taken under the world guard by a thread that
\* does not hold it yet
GuardsInOrder ==
    \A t \in Threads :
       /\ (document_guard = Some(t) /\ ~reads_document(threads[t].op))
             => world_guard = Some(t)
       /\ (threads[t].at = "world?") => document_guard # Some(t)
       /\ reads_document(threads[t].op) => world_guard # Some(t)
       /\ (slots_lock = Some(t) \/ threads[t].at = "slots?")
             => world_guard = Some(t)
       /\ threads[t].at = "slots?" => slots_lock # Some(t)

\* C20: the guards are taken in one order (world, then document; the map lock
\* under the world guard, never re-entered; render and export only the
\* document guard), and every started operation eventually completes.
C20_EveryOperationCompletes ==
    /\ []GuardsInOrder
    /\ \A t \in Threads :
          (threads[t].at # "idle") ~> (threads[t].at = "idle")

\* a compile that holds the world guard waits for the document guard while a
\* render holds it
C20_Witness ==
    \E t \in Threads, u \in Threads :
       /\ threads[t].op = "compile" /\ threads[t].at = "document?"
       /\ world_guard = Some(t)
       /\ threads[u].op = "render_svg" /\ threads[u].at = "document"
       /\ document_guard = Some(u)

----------------------------------------------------------------------------
(* SpecHtml: export_html among paged compiles and renders. The compiler     *)
(* looks one project file up during either compile and asks for the date,   *)
(* so the slot map holds accessed cells and the clock a snapshot when an    *)
(* HTML export starts.                                                      *)

HtmlEntries == {Missing, File(<<"x">>)}

InitHtml ==
    /\ context_new
    /\ disk \in [CacheLocs -> HtmlEntries]
    /\ NoParse /\ NoClock /\ NoThreads /\ NoDiagnostics

NextHtml ==
    \/ \E m \in Markups : context_set_markup(m)
    \/ compile_begin
    \/ \E outcome \in CacheOutcomes : compile_end(outcome)
    \/ export_html_begin
    \/ \E outcome \in HtmlOutcomes : export_html_end(outcome)
    \/ \E id \in CacheIds : world_source(id)
    \/ \E id \in CacheIds : world_file(id)
    \/ world_today(None)
    \/ \E page \in 0..MaxPages : context_render_svg(page)
    \/ document_clear

SpecHtml == InitHtml /\ [][NextHtml]_vars

\* what the session keeps of the paged compile
session_vars == <<document, markup, virtual_files, inputs, library, last_compile, mutated>>

\* a new generation has started: every cell is kept but unaccessed, and the
\* clock snapshot is gone
NewGeneration ==
    /\ slots' = SystemWorld_reset(slots)
    /\ \A id \in DOMAIN slots' :
          ~slots'[id].source.accessed /\ ~slots'[id].file.accessed
    /\ now' = None

\* C22: export_html runs in any session state, with or without a stored
\* document; it starts a new cache generation and compiles the current markup
\* to HTML, and from its start to its return, success or failure, the stored
\* paged document (and so what render and export answer) is what it was.
C22_HtmlLeavesDocument ==
    /\ [](pc = "idle" => ENABLED export_html_begin)
    /\ [][/\ export_html_begin => (NewGeneration /\ UNCHANGED session_vars)
          /\ pc = "html" => UNCHANGED session_vars
          /\ \A outcome \in HtmlOutcomes :
                export_html_end(outcome) =>
                    /\ ret'.op = "export_html"
                    /\ ret'.val.ok = outcome.ok
                    /\ outcome.ok => ret'.val = outcome]_vars

\* a failed export_html has returned on a context that still stores its
\* document, after the HTML compile read the project file through the cache
C22_Witness ==
    /\ pc = "idle" /\ ret.op = "export_html" /\ ~ret.val.ok
    /\ document # None
    /\ obs.kind # "none" /\ obs.via = "cache" /\ obs.loaded
    /\ \E id \in DOMAIN slots : slots[id].source.accessed

----------------------------------------------------------------------------
(* SpecPackage: the lookups of a project file and of a package file with    *)
(* the same virtual path. The host keeps overlay entries under the rootless *)
(* spelling of that path and under a rooted spelling, which is no           *)
(* identity's rootless path. The package may be missing from the package    *)
(* storage, so that reaching the resolver shows as a Package error.         *)

PackageSpec == "preview/pkg"
PackageIds == {FileId(None, "a.typ"), FileId(Some(PackageSpec), "a.typ")}
PackageLocs == {<<id.package, id.vpath>> : id \in PackageIds}
PackagePaths == {"a.typ", "/a.typ"}
PackageDisks ==
    {fs \in [PackageLocs -> {Missing, NoPackage, File(<<"x", "x">>)}] :
        \A loc \in PackageLocs : fs[loc].kind = "nopackage" => loc[1] # None}

InitPackage ==
    /\ context_new
    /\ disk \in PackageDisks
    /\ NoParse /\ NoClock /\ NoThreads /\ NoDiagnostics

NextPackage ==
    \/ \E path \in PackagePaths, content \in WorldContents :
          context_set_virtual_file(path, content)
    \/ \E path \in PackagePaths : context_clear_virtual_file(path)
    \/ export_html_begin
    \/ \E outcome \in HtmlOutcomes : export_html_end(outcome)
    \/ \E id \in PackageIds : world_source(id)
    \/ \E id \in PackageIds : world_file(id)
    \/ document_clear

SpecPackage == InitPackage /\ [][NextPackage]_vars

\* what the two lookups of id give in the current state
SourceOf(id) == World_source(id, markup, virtual_files, slots, disk).value
BytesOf(id) == World_file(id, markup, virtual_files, slots, disk).value

\* C23: the overlay is keyed by the rootless virtual path alone. A lookup of a
\* non-main identity whose path has an overlay entry is answered with that
\* entry (its bytes, or the source of its text), whatever the package spec:
\* no cache entry is created or accessed and nothing is loaded, so the package
\* resolver is not reached; identities that differ only in package spec get
\* the same content.
C23_OverlayKeyedByPathAlone ==
    [][\A id \in PackageIds :
          (id.vpath \in DOMAIN virtual_files /\ LookupStep(id)) =>
              /\ NoCacheUse
              /\ obs'.kind = "file" => obs'.value = Ok(virtual_files[id.vpath])
              /\ obs'.kind = "source" =>
                    obs'.value = Ok(Source(id, OverlayText(virtual_files[id.vpath])))
              /\ \A other \in PackageIds :
                    other.vpath = id.vpath =>
                        /\ BytesOf(other) = BytesOf(id)
                        /\ SourceOf(other).ok /\ SourceOf(id).ok
                        /\ SourceOf(other).v.text = SourceOf(id).v.text]_vars

\* a raw-bytes lookup of the package file answered from the overlay entry at
\* its path, in a world whose package storage does not have the package and
\* whose overlay also has an entry under the rooted spelling
C23_Witness ==
    /\ pc = "html"
    /\ obs.kind = "file" /\ obs.via = "overlay"
    /\ obs.id = FileId(Some(PackageSpec), "a.typ")
    /\ disk[<<Some(PackageSpec), "a.typ">>] = NoPackage
    /\ "a.typ" \in DOMAIN virtual_files /\ "/a.typ" \in DOMAIN virtual_files
    /\ virtual_files["a.typ"] # virtual_files["/a.typ"]
    /\ obs.value = Ok(virtual_files["a.typ"])
    /\ obs.id \notin DOMAIN slots

====
